---- MODULE Spec2Model ----
(***************************************************************************)
(* Model of the horizon agent backend (apps/backend/src/agent):            *)
(*   - the task store of agent/todo.py,                                    *)
(*   - the model-call node of agent/middleware/model_call.py,              *)
(*   - the tool node of agent/middleware/tools.py,                         *)
(*   - the turn graph of agent/graph.py with its middleware nodes.         *)
(* Python None is modelled by None (0) for ids and timestamps, which are   *)
(* positive naturals, and by NoResult for the optional result string.      *)
(***************************************************************************)
EXTENDS Integers, Sequences, FiniteSets, TLC

VARIABLES
    pc,            \* the node of the turn graph that runs next
    cfg,           \* the AgentConfig the graph was built with
    state,         \* the AgentState dictionary (a record of its present keys)
    ret,           \* what the last node handler returned
    clock,         \* datetime.utcnow(), as a count of clock ticks
    uuids,         \* number of uuid4() values drawn so far
    ops,           \* number of mutating task-store calls made so far
    last           \* the last task-store call: its name, argument and result

vars == <<pc, cfg, state, ret, clock, uuids, ops, last>>

----------------------------------------------------------------------------
(* Bounds of the exploration *)

MaxTasks == 2      \* tasks created in one todo list
MaxOps == 3        \* mutating task-store calls in one run
MaxRetries == 4    \* largest configured max_retries
MaxBatch == 3      \* tool-call requests in one assistant message
MaxCount == 3      \* largest value of a counter in an incoming state
MaxCycles == 2     \* model cycles explored in one turn
TurnBatch == 1     \* tool-call requests of one assistant message in a turn
MaxListed == 3     \* tasks of a todo list that is summarised, every status each
LargeTotal == 20000 \* tasks of a long todo list that is summarised
MaxSuggested == 6  \* tasks listed by one answer of the planning model
MaxProcs == 2      \* concurrent callers of the interactive shell tool
MaxCloses == 2     \* concurrent callers of close_session

----------------------------------------------------------------------------
(* agent/todo.py *)

None == 0
NoResult == "None"
GhostId == MaxTasks + 1     \* an id that no task of the list carries

TaskStatus == {"pending", "in_progress", "completed", "blocked", "cancelled"}
Priority == {"low", "medium", "high", "critical"}

Task(task_id, content, priority, parent_task_id, dependencies, now) ==
    [task_id |-> task_id,
     content |-> content,
     status |-> "pending",
     priority |-> priority,
     parent_task_id |-> parent_task_id,
     created_at |-> now,
     updated_at |-> now,
     completed_at |-> None,
     dependencies |-> dependencies,
     subtasks |-> <<>>,
     result |-> NoResult]

create_empty_todo_list ==
    [tasks |-> <<>>, active_task_id |-> None, task_counter |-> 0]

Range(s) == {s[i] : i \in 1..Len(s)}

TaskIds(tl) == {tl.tasks[i].task_id : i \in 1..Len(tl.tasks)}

\* index of the first task carrying task_id, 0 when there is none
IndexOf(tasks, task_id) ==
    IF \E i \in 1..Len(tasks) : tasks[i].task_id = task_id
    THEN CHOOSE i \in 1..Len(tasks) :
            /\ tasks[i].task_id = task_id
            /\ \A j \in 1..(i - 1) : tasks[j].task_id # task_id
    ELSE 0

\* list.remove(x): drops the first occurrence of x
ListRemove(s, x) ==
    LET i == CHOOSE k \in 1..Len(s) : s[k] = x /\ \A j \in 1..(k - 1) : s[j] # x
    IN  SubSeq(s, 1, i - 1) \o SubSeq(s, i + 1, Len(s))

create_task(tl, content, priority, parent_task_id, dependencies, task_id, now) ==
    LET task == Task(task_id, content, priority, parent_task_id, dependencies, now)
        p == IF parent_task_id # None THEN IndexOf(tl.tasks, parent_task_id) ELSE 0
        tasks1 == IF p # 0
                  THEN [tl.tasks EXCEPT ![p].subtasks = Append(@, task_id)]
                  ELSE tl.tasks
    IN  [tl EXCEPT !.tasks = Append(tasks1, task),
                   !.task_counter = tl.task_counter + 1]

\* the task dictionary after update_task_status has handled it
UpdatedTask(tl, task, status, result, now) ==
    LET t1 == [task EXCEPT !.status = status, !.updated_at = now]
        t2 == IF status = "completed"
              THEN [t1 EXCEPT !.completed_at = now,
                              !.result = IF result = NoResult THEN "" ELSE result]
              ELSE t1
        all_done == \A i \in 1..Len(tl.tasks) :
                        tl.tasks[i].task_id \in Range(t2.subtasks)
                            => (IF tl.tasks[i].task_id = task.task_id
                                THEN t2.status
                                ELSE tl.tasks[i].status) = "completed"
    IN  IF t2.subtasks # <<>> /\ all_done
        THEN [t2 EXCEPT !.status = "completed", !.completed_at = now]
        ELSE t2

update_task_status(tl, task_id, status, result, now) ==
    LET i == IndexOf(tl.tasks, task_id)
    IN  IF i = 0 THEN tl
        ELSE [tl EXCEPT !.tasks[i] = UpdatedTask(tl, tl.tasks[i], status, result, now)]

\* update_task_notes: the task found gets its notes and a new updated_at; the
\* text of the notes is not part of the task records here
update_task_notes(tl, task_id, now) ==
    LET i == IndexOf(tl.tasks, task_id)
    IN  IF i = 0 THEN tl
        ELSE [tl EXCEPT !.tasks[i].updated_at = now]

\* mutant: the removed task stays in its parent's subtasks
remove_task_keeps_link(tl, task_id) ==
    LET i == IndexOf(tl.tasks, task_id)
        tasks2 == [k \in 1..Len(tl.tasks) |->
                     IF task_id \in Range(tl.tasks[k].dependencies)
                     THEN [tl.tasks[k] EXCEPT !.dependencies = ListRemove(@, task_id)]
                     ELSE tl.tasks[k]]
    IN  IF i = 0 THEN tl
        ELSE [tl EXCEPT !.tasks = SubSeq(tasks2, 1, i - 1)
                                    \o SubSeq(tasks2, i + 1, Len(tasks2))]

remove_task(tl, task_id) ==
    LET i == IndexOf(tl.tasks, task_id)
        task == tl.tasks[i]
        p == IF task.parent_task_id # None
             THEN IndexOf(tl.tasks, task.parent_task_id) ELSE 0
        tasks1 == IF p # 0 /\ task_id \in Range(tl.tasks[p].subtasks)
                  THEN [tl.tasks EXCEPT ![p].subtasks = ListRemove(@, task_id)]
                  ELSE tl.tasks
        tasks2 == [k \in 1..Len(tasks1) |->
                     IF task_id \in Range(tasks1[k].dependencies)
                     THEN [tasks1[k] EXCEPT !.dependencies = ListRemove(@, task_id)]
                     ELSE tasks1[k]]
    IN  IF i = 0 THEN tl
        ELSE [tl EXCEPT !.tasks = SubSeq(tasks2, 1, i - 1)
                                    \o SubSeq(tasks2, i + 1, Len(tasks2))]

\* the boolean that set_active_task returns
set_active_task_found(tl, task_id) ==
    task_id = None \/ IndexOf(tl.tasks, task_id) # 0

\* mutant: the id is stored without looking it up
set_active_task_unchecked(tl, task_id) ==
    [tl EXCEPT !.active_task_id = task_id]

set_active_task(tl, task_id) ==
    IF set_active_task_found(tl, task_id)
    THEN [tl EXCEPT !.active_task_id = task_id]
    ELSE tl

\* get_task returns the task dictionary; HasTask tells whether it is not None
HasTask(tl, task_id) == IndexOf(tl.tasks, task_id) # 0
get_task(tl, task_id) == tl.tasks[IndexOf(tl.tasks, task_id)]

\* mutant: medium is missing from the table and takes the default rank
priority_order_no_medium(p) ==
    CASE p = "critical" -> 0
      [] p = "high" -> 1
      [] p = "low" -> 2
      [] OTHER -> 3

priority_order(p) ==
    CASE p = "critical" -> 0
      [] p = "high" -> 1
      [] p = "medium" -> 2
      [] OTHER -> 3

\* the sort key of get_pending_tasks, compared as Python compares tuples
KeyLeq(a, b) ==
    \/ priority_order(a.priority) < priority_order(b.priority)
    \/ /\ priority_order(a.priority) = priority_order(b.priority)
       /\ a.created_at <= b.created_at

\* sorted(): stable, an element goes after every element whose key is not larger
RECURSIVE StableSort(_)
StableSort(s) ==
    IF s = <<>> THEN <<>>
    ELSE LET x == s[Len(s)]
             r == StableSort(SubSeq(s, 1, Len(s) - 1))
             n == Cardinality({i \in 1..Len(r) : KeyLeq(r[i], x)})
             \* keys are totally ordered, so the elements not larger than x
             \* are a prefix of the sorted list r
         IN  SubSeq(r, 1, n) \o <<x>> \o SubSeq(r, n + 1, Len(r))

get_pending_tasks(tl) ==
    LET IsPending(t) == t.status = "pending"
    IN  StableSort(SelectSeq(tl.tasks, IsPending))

\* mutant: a dependency on a task that is not in the list stays unresolved
deps_resolved_present_only(tl, task) ==
    \A k \in 1..Len(task.dependencies) :
        /\ HasTask(tl, task.dependencies[k])
        /\ get_task(tl, task.dependencies[k]).status = "completed"

deps_resolved(tl, task) ==
    \A k \in 1..Len(task.dependencies) :
        \/ ~HasTask(tl, task.dependencies[k])
        \/ get_task(tl, task.dependencies[k]).status = "completed"

\* mutant: no fallback to the first pending task
get_next_task_no_fallback(tl) ==
    LET pending == get_pending_tasks(tl)
        ok == {i \in 1..Len(pending) : deps_resolved(tl, pending[i])}
    IN  IF ok # {}
        THEN pending[CHOOSE i \in ok : \A j \in ok : i <= j].task_id
        ELSE None

\* get_next_task, as the id of the task it returns (None when it returns None)
get_next_task(tl) ==
    LET pending == get_pending_tasks(tl)
        ok == {i \in 1..Len(pending) : deps_resolved(tl, pending[i])}
    IN  IF ok # {}
        THEN pending[CHOOSE i \in ok : \A j \in ok : i <= j].task_id
        ELSE IF pending # <<>> THEN pending[1].task_id ELSE None

\* number of tasks of the list in the given status
CountStatus(tl, status) ==
    Cardinality({i \in 1..Len(tl.tasks) : tl.tasks[i].status = status})

\* mutant: the percentage is cut after the second decimal, not rounded
RoundedPercentage_truncated(completed, total) ==
    (completed * 10000) \div total

\* round(completed / total * 100, 2), in hundredths of a percent, computed as
\* the interpreter computes it on binary floating-point numbers of 53
\* significant bits: the quotient is rounded to the nearest such number (to
\* the even one of two equally near), so is its product with 100, and round
\* takes the hundredth nearest to the exact value of that product (the even
\* one of two equally near). A number is a sequence of words of 10 bits, most
\* significant first, with the count of its bits that follow the binary
\* point; total is below 2^21. The error of the float is below 2^-44, which
\* moves no quotient across a half-way point (they are at least 1 / (200 *
\* total) apart): when the quotient is not half way between two hundredths
\* the hundredth nearest to it is the result, and the float is computed to
\* tell which way a quotient that is half way falls. Each intermediate number
\* is the one element of a set, which fixes its value before it is used.
RoundedPercentage(completed, total) ==
    LET P2 == <<1, 2, 4, 8, 16, 32, 64, 128, 256, 512, 1024>>
        Strip(w) ==
            LET nz == {i \in 1..Len(w) : w[i] # 0}
            IN  IF nz = {} THEN <<>>
                ELSE SubSeq(w, CHOOSE i \in nz : \A k \in nz : i <= k, Len(w))
        Increment(w) ==
            LET z == {i \in 1..Len(w) : w[i] # 1023}
                m == CHOOSE i \in z : \A k \in z : k <= i
            IN  IF z = {} THEN <<1>> \o [i \in 1..Len(w) |-> 0]
                ELSE [i \in 1..Len(w) |->
                         IF i < m THEN w[i] ELSE IF i = m THEN w[i] + 1 ELSE 0]
        \* the 53 leading bits of the number w, whose first word is not 0,
        \* rounded on the bits that are dropped; sticky tells that the exact
        \* value has nonzero bits after the words given
        NearestEven(w, shift, sticky) ==
            LET L == Cardinality({k \in 1..10 : P2[k] <= w[1]})
                j == 2 + (53 - L) \div 10
                remb == (53 - L) % 10
                unit == P2[11 - remb]
            IN  IF Len(w) < j THEN [words |-> w, shift |-> shift]
                ELSE LET guard == (w[j] \div P2[10 - remb]) % 2
                         more == \/ sticky
                                 \/ w[j] % P2[10 - remb] # 0
                                 \/ \E i \in (j + 1)..Len(w) : w[i] # 0
                         keptj == (w[j] \div unit) * unit
                         odd == IF remb = 0 THEN w[j - 1] % 2 = 1
                                ELSE (w[j] \div unit) % 2 = 1
                         rest == shift - 10 * (Len(w) - j)
                         head == SubSeq(w, 1, j - 1)
                     IN  IF guard = 1 /\ (more \/ odd)
                         THEN IF keptj + unit < 1024
                              THEN [words |-> Append(head, keptj + unit), shift |-> rest]
                              ELSE [words |-> Append(Increment(head), 0), shift |-> rest]
                         ELSE [words |-> Append(head, keptj), shift |-> rest]
        \* the product of the number with k
        Times(w, k) ==
            LET RECURSIVE Carry(_)
                Carry(i) == IF i > Len(w) THEN 0
                            ELSE (w[i] * k + Carry(i + 1)) \div 1024
            IN  <<Carry(1)>> \o [i \in 1..Len(w) |-> (w[i] * k + Carry(i + 1)) % 1024]
        RECURSIVE Rem(_), Value(_, _)
        Rem(i) == IF i = 0 THEN completed % total ELSE (Rem(i - 1) * 1024) % total
        Value(w, i) == IF i = 0 THEN 0 ELSE Value(w, i - 1) * 1024 + w[i]
        \* the hundredth nearest to the number y of which f words follow the
        \* binary point
        Nearest(y, f) ==
            LET whole == IF Len(y) > f THEN Value(y, Len(y) - f) ELSE 0
                first == IF f > 0 /\ Len(y) >= f THEN y[Len(y) - f + 1] ELSE 0
                beyond == first % 512 # 0 \/ \E i \in (Len(y) - f + 2)..Len(y) : y[i] # 0
            IN  IF first >= 512 /\ (beyond \/ whole % 2 = 1) THEN whole + 1 ELSE whole
        \* completed / total: the whole part, then nine words after the point
        \* by long division
        whole_part == completed \div total
        quotient ==
            {NearestEven(w, 90, Rem(9) # 0) :
                w \in {Strip(<<whole_part \div 1073741824, (whole_part \div 1048576) % 1024,
                               (whole_part \div 1024) % 1024, whole_part % 1024>>
                                 \o [i \in 1..9 |-> (Rem(i - 1) * 1024) \div total])}}
        product ==
            UNION {{NearestEven(w, x.shift, FALSE) : w \in {Strip(Times(x.words, 100))}} :
                      x \in quotient}
        \* the product in hundredths, exactly
        hundredths ==
            UNION {{Nearest(y, x.shift \div 10) : y \in {Times(x.words, 100)}} :
                      x \in product}
        q == (completed * 10000) \div total
        r == (completed * 10000) % total
    IN  IF completed = 0 THEN 0
        ELSE IF 2 * r > total THEN q + 1
        ELSE IF 2 * r < total THEN q
        ELSE CHOOSE h \in hundredths : TRUE

get_todo_list_summary(tl) ==
    LET total == Len(tl.tasks)
        completed == CountStatus(tl, "completed")
    IN  [total |-> total,
         completed |-> completed,
         in_progress |-> CountStatus(tl, "in_progress"),
         pending |-> CountStatus(tl, "pending"),
         blocked |-> CountStatus(tl, "blocked"),
         completion_percentage |->
             IF total > 0 THEN RoundedPercentage(completed, total) ELSE 0,
         active_task_id |-> tl.active_task_id]

----------------------------------------------------------------------------
(* Messages and the AgentState dictionary (agent/state.py) *)

\* the texts the model works with, and the indicator keywords each of them
\* contains once lowercased
KeywordsIn(text) ==
    CASE text = "Task completed" -> {"completed"}
      [] text = "Error: boom" -> {"error"}
      [] text = "Error executing tool" -> {"error"}
      [] text = "completed with error" -> {"completed", "error"}
      [] OTHER -> {}

NoUsage == [present |-> FALSE, input_tokens |-> 0, output_tokens |-> 0]

Message(type, content, tool_calls, tool_call_id, name, status, usage_metadata) ==
    [type |-> type, id |-> None, content |-> content, tool_calls |-> tool_calls,
     tool_call_id |-> tool_call_id, name |-> name, status |-> status,
     usage_metadata |-> usage_metadata]

HumanMessage(content) == Message("human", content, <<>>, "", "", "", NoUsage)

AIMessage(content, tool_calls, usage_metadata) ==
    Message("ai", content, tool_calls, "", "", "", usage_metadata)

ToolMessage(content, tool_call_id, name, status) ==
    Message("tool", content, <<>>, tool_call_id, name, status, NoUsage)

\* the reducer of the messages key: a message whose id is already in the list
\* replaces that message, any other is appended, with a fresh id if it has none
RECURSIVE add_messages(_, _)
add_messages(left, right) ==
    IF right = <<>> THEN left
    ELSE LET m == right[1]
             i == IF m.id = None THEN 0
                  ELSE IF \E k \in 1..Len(left) : left[k].id = m.id
                       THEN CHOOSE k \in 1..Len(left) : left[k].id = m.id
                       ELSE 0
             merged == IF i # 0 THEN [left EXCEPT ![i] = m]
                       ELSE Append(left,
                                [m EXCEPT !.id = IF m.id = None THEN Len(left) + 1 ELSE m.id])
         IN  add_messages(merged, SubSeq(right, 2, Len(right)))

\* state.get(key, default)
Get(st, key, default) == IF key \in DOMAIN st THEN st[key] ELSE default

\* the keys AgentState declares: the graph keeps one channel per declared key
AgentStateKeys ==
    {"messages", "user_preferences", "long_term_memory", "session_context", "todo_list",
     "model_calls", "tool_calls", "total_tokens", "start_time", "session_id", "user_id",
     "metadata"}

\* a patch merged into the state: last writer wins per declared key, messages are
\* reduced, and a key of the patch that AgentState does not declare has no channel
\* to be written to and is not carried to the next node
Merge(st, patch) ==
    [k \in DOMAIN st \cup (DOMAIN patch \cap AgentStateKeys) |->
        IF k \in DOMAIN patch
        THEN IF k = "messages" /\ k \in DOMAIN st
             THEN add_messages(st.messages, patch.messages)
             ELSE patch[k]
        ELSE st[k]]

\* what a node handler did: returned a patch, returned None, or raised
Returned(node, patch) ==
    [node |-> node, kind |-> "patch", patch |-> patch, attempts |-> 0, sleeps |-> <<>>]
ReturnedNone(node) ==
    [node |-> node, kind |-> "none", patch |-> <<>>, attempts |-> 0, sleeps |-> <<>>]
Raised(node) ==
    [node |-> node, kind |-> "raise", patch |-> <<>>, attempts |-> 0, sleeps |-> <<>>]

----------------------------------------------------------------------------
(* agent/middleware/model_call.py *)

initial_delay == 1
backoff_factor == 2

RECURSIVE Pow(_, _)
Pow(b, n) == IF n = 0 THEN 1 ELSE b * Pow(b, n - 1)

FallbackMessage == AIMessage("Technical difficulties. Please try again.", <<>>, NoUsage)

\* mutant: a successful attempt leaves model_calls as it was
SuccessPatch_uncounted(st, response) ==
    [messages |-> <<response>>,
     model_calls |-> Get(st, "model_calls", 0),
     input_tokens |-> response.usage_metadata.input_tokens,
     output_tokens |-> response.usage_metadata.output_tokens]

\* the patch of a successful attempt
SuccessPatch(st, response) ==
    [messages |-> <<response>>,
     model_calls |-> Get(st, "model_calls", 0) + 1,
     input_tokens |-> response.usage_metadata.input_tokens,
     output_tokens |-> response.usage_metadata.output_tokens]

\* the patch of the last attempt when it fails
FallbackPatch(st) ==
    [messages |-> <<FallbackMessage>>,
     model_calls |-> Get(st, "model_calls", 0) + 1,
     input_tokens |-> 0,
     output_tokens |-> 0]

\* mutant: the delay between two attempts does not grow
RECURSIVE RetryLoop_constant_delay(_, _, _, _, _)
RetryLoop_constant_delay(st, c, env, attempt, sleeps) ==
    IF attempt >= c.max_retries
    THEN [node |-> "model", kind |-> "none", patch |-> <<>>,
          attempts |-> attempt, sleeps |-> sleeps]
    ELSE IF attempt >= env.failures
    THEN [node |-> "model", kind |-> "patch", patch |-> SuccessPatch(st, env.response),
          attempts |-> attempt + 1, sleeps |-> sleeps]
    ELSE IF attempt = c.max_retries - 1
    THEN [node |-> "model", kind |-> "patch", patch |-> FallbackPatch(st),
          attempts |-> attempt + 1, sleeps |-> sleeps]
    ELSE RetryLoop_constant_delay(st, c, env, attempt + 1, Append(sleeps, c.initial_delay))

\* the for loop over range(max_retries): env.failures attempts fail before one
\* succeeds and returns env.response
RECURSIVE RetryLoop(_, _, _, _, _)
RetryLoop(st, c, env, attempt, sleeps) ==
    IF attempt >= c.max_retries
    THEN [node |-> "model", kind |-> "none", patch |-> <<>>,
          attempts |-> attempt, sleeps |-> sleeps]
    ELSE IF attempt >= env.failures
    THEN [node |-> "model", kind |-> "patch", patch |-> SuccessPatch(st, env.response),
          attempts |-> attempt + 1, sleeps |-> sleeps]
    ELSE IF attempt = c.max_retries - 1
    THEN [node |-> "model", kind |-> "patch", patch |-> FallbackPatch(st),
          attempts |-> attempt + 1, sleeps |-> sleeps]
    ELSE RetryLoop(st, c, env, attempt + 1,
                   Append(sleeps, c.initial_delay * Pow(c.backoff_factor, attempt)))

\* ModelCallMiddleware.__call__: binding the tools and building the system
\* prompt come before the loop and outside its try block
ModelCallMiddleware(st, c, env) ==
    IF ~env.bind_ok THEN Raised("model")
    ELSE IF ~env.prompt_ok THEN Raised("model")
    ELSE RetryLoop(st, c, env, 0, <<>>)

----------------------------------------------------------------------------
(* agent/middleware/tools.py *)

ToolCall(id, name) == [id |-> id, name |-> name]

\* super().ainvoke of the prebuilt tool node: one result message per call, in
\* call order; an exception of a tool is turned into an error message when
\* the node handles it and leaves the node otherwise
ToolNodeRaises(calls, env) ==
    ~env.handled /\ \E i \in 1..Len(calls) : env.outcomes[i] = "raise"

ToolNodeResult(calls, env) ==
    [messages |->
        [i \in 1..Len(calls) |->
            IF env.outcomes[i] = "raise"
            THEN ToolMessage("Error: boom", calls[i].id, calls[i].name, "error")
            ELSE ToolMessage(env.content, calls[i].id, calls[i].name, "success")]]

\* the except branch: one error message per requested call
ErrorPatch(st, calls) ==
    [messages |->
        [i \in 1..Len(calls) |->
            ToolMessage("Error executing tool", calls[i].id, calls[i].name, "success")],
     tool_calls |-> Get(st, "tool_calls", 0) + Len(calls),
     _tool_errors |-> [i \in 1..Len(calls) |-> calls[i].name]]

\* mutant: the counter is advanced by one per batch
ToolNodeWithMiddlewarePerBatch(st, env) ==
    LET calls == st.messages[Len(st.messages)].tool_calls
    IN  IF calls = <<>> THEN Returned("tools", st)
        ELSE IF ToolNodeRaises(calls, env)
        THEN Returned("tools", ErrorPatch(st, calls))
        ELSE Returned("tools",
                [tool_calls |-> Get(st, "tool_calls", 0) + 1]
                    @@ ToolNodeResult(calls, env))

\* ToolNodeWithMiddleware.ainvoke
ToolNodeWithMiddleware(st, env) ==
    LET calls == st.messages[Len(st.messages)].tool_calls
    IN  IF calls = <<>> THEN Returned("tools", st)
        ELSE IF ToolNodeRaises(calls, env)
        THEN Returned("tools", ErrorPatch(st, calls))
        ELSE Returned("tools",
                [tool_calls |-> Get(st, "tool_calls", 0) + Len(calls)]
                    @@ ToolNodeResult(calls, env))

----------------------------------------------------------------------------
(* The task store driven by a caller: any sequence of its operations *)

NoCall == [op |-> "none", task_id |-> None, found |-> FALSE, ret |-> None]
NoRet == [node |-> "none", kind |-> "none", patch |-> <<>>, attempts |-> 0, sleeps |-> <<>>]
NoCfg == [max_retries |-> 0]

InitStore ==
    /\ pc = "caller"
    /\ cfg = NoCfg
    /\ state = [todo_list |-> create_empty_todo_list]
    /\ ret = NoRet
    /\ clock = 1
    /\ uuids = 0
    /\ ops = 0
    /\ last = NoCall

\* the clock may or may not have advanced when the next call reads it
Elapse == \E d \in {0, 1} : clock' = clock + d

\* what a caller passes to create_task: a priority and a dependency list, or
\* a parent task
CreateChoices ==
    LET ids == TaskIds(state.todo_list)
    IN  {[priority |-> p, parent |-> None, deps |-> d] :
            p \in Priority, d \in {<<>>} \cup {<<i>> : i \in ids \cup {GhostId}}}
        \cup {[priority |-> "medium", parent |-> i, deps |-> <<>>] :
                 i \in ids \cup {GhostId}}

\* what a caller passes to update_task_status: a status, and a result when
\* the task is reported completed
UpdateChoices ==
    {[status |-> s, result |-> NoResult] : s \in TaskStatus}
        \cup {[status |-> "completed", result |-> "r"]}

CreateTask ==
    /\ ops < MaxOps
    /\ Len(state.todo_list.tasks) < MaxTasks /\ uuids < MaxTasks
    /\ \E c \in CreateChoices :
          /\ state' = [state EXCEPT !.todo_list =
                          create_task(@, "Build the project", c.priority, c.parent, c.deps,
                                      uuids + 1, clock)]
          /\ last' = [op |-> "create_task", task_id |-> c.parent,
                      found |-> TRUE, ret |-> uuids + 1]
    /\ uuids' = uuids + 1
    /\ ops' = ops + 1
    /\ Elapse
    /\ UNCHANGED <<pc, cfg, ret>>

UpdateTaskStatus ==
    /\ ops < MaxOps
    /\ \E task_id \in TaskIds(state.todo_list) \cup {GhostId}, u \in UpdateChoices :
          /\ state' = [state EXCEPT !.todo_list =
                          update_task_status(@, task_id, u.status, u.result, clock)]
          /\ last' = [op |-> "update_task_status", task_id |-> task_id,
                      found |-> HasTask(state.todo_list, task_id),
                      ret |-> IF HasTask(state.todo_list, task_id) THEN task_id ELSE None,
                      status |-> u.status, result |-> u.result]
    /\ ops' = ops + 1
    /\ Elapse
    /\ UNCHANGED <<pc, cfg, ret, uuids>>

UpdateTaskNotes ==
    /\ ops < MaxOps
    /\ \E task_id \in TaskIds(state.todo_list) \cup {GhostId} :
          /\ state' = [state EXCEPT !.todo_list = update_task_notes(@, task_id, clock)]
          /\ last' = [op |-> "update_task_notes", task_id |-> task_id,
                      found |-> HasTask(state.todo_list, task_id),
                      ret |-> IF HasTask(state.todo_list, task_id) THEN task_id ELSE None]
    /\ ops' = ops + 1
    /\ Elapse
    /\ UNCHANGED <<pc, cfg, ret, uuids>>

RemoveTask ==
    /\ ops < MaxOps
    /\ \E task_id \in TaskIds(state.todo_list) \cup {GhostId} :
          /\ state' = [state EXCEPT !.todo_list = remove_task(@, task_id)]
          /\ last' = [op |-> "remove_task", task_id |-> task_id,
                      found |-> HasTask(state.todo_list, task_id), ret |-> None,
                      parent |-> IF HasTask(state.todo_list, task_id)
                                 THEN get_task(state.todo_list, task_id).parent_task_id
                                 ELSE None]
    /\ ops' = ops + 1
    /\ UNCHANGED <<pc, cfg, ret, clock, uuids>>

SetActiveTask ==
    /\ ops < MaxOps
    /\ \E task_id \in TaskIds(state.todo_list) \cup {GhostId, None} :
          /\ state' = [state EXCEPT !.todo_list = set_active_task(@, task_id)]
          /\ last' = [op |-> "set_active_task", task_id |-> task_id,
                      found |-> set_active_task_found(state.todo_list, task_id),
                      ret |-> None]
    /\ ops' = ops + 1
    /\ UNCHANGED <<pc, cfg, ret, clock, uuids>>

GetNextTask ==
    /\ last' = [op |-> "get_next_task", task_id |-> None,
                found |-> get_next_task(state.todo_list) # None,
                ret |-> get_next_task(state.todo_list)]
    /\ UNCHANGED <<pc, cfg, state, ret, clock, uuids, ops>>

NextStore ==
    \/ CreateTask
    \/ UpdateTaskStatus
    \/ UpdateTaskNotes
    \/ RemoveTask
    \/ SetActiveTask
    \/ GetNextTask

SpecStore == InitStore /\ [][NextStore]_vars

----------------------------------------------------------------------------
(* Properties of the task store *)

\* rank of a priority in the order critical > high > medium > low
PriorityRank ==
    [p \in Priority |->
        IF p = "critical" THEN 4 ELSE IF p = "high" THEN 3
        ELSE IF p = "medium" THEN 2 ELSE 1]

PendingIdx(tl) == {i \in 1..Len(tl.tasks) : tl.tasks[i].status = "pending"}

\* the pending task at index i has every dependency resolved: each is the id
\* of no task of the list, or of a completed one
ResolvedIdx(tl, i) ==
    \A d \in Range(tl.tasks[i].dependencies) :
        \A j \in 1..Len(tl.tasks) :
            tl.tasks[j].task_id = d => tl.tasks[j].status = "completed"

\* the task at index i comes before the task at index j in priority order,
\* ties broken by creation time, then by position in the list
Before(tl, i, j) ==
    LET a == tl.tasks[i]
        b == tl.tasks[j]
    IN  \/ PriorityRank[a.priority] > PriorityRank[b.priority]
        \/ /\ PriorityRank[a.priority] = PriorityRank[b.priority]
           /\ \/ a.created_at < b.created_at
              \/ a.created_at = b.created_at /\ i <= j

\* C8: set_active(id) with a non-null id matching no task returns false and
\* leaves active_task_id and every task unchanged; set_active(null) and
\* set_active(existing id) return true and set active_task_id to that value.
C8_SetActive ==
    [][SetActiveTask =>
        LET id == last'.task_id
            known == id = None \/ id \in TaskIds(state.todo_list)
        IN  /\ ~known => /\ last'.found = FALSE
                         /\ state'.todo_list = state.todo_list
            /\ known => /\ last'.found = TRUE
                        /\ state'.todo_list.active_task_id = id
                        /\ state'.todo_list.tasks = state.todo_list.tasks]_vars

\* an unknown id was refused while another task was, and stays, active
C8_Witness ==
    /\ last.op = "set_active_task"
    /\ last.task_id = GhostId
    /\ ~last.found
    /\ state.todo_list.active_task_id \in TaskIds(state.todo_list)

\* C9: next_pending() never returns a task that is not pending; it returns a
\* task whenever a pending task exists, the first pending task in priority
\* order when no pending task has all dependencies resolved; it returns none
\* only when the list has no pending task.
C9_NextPending ==
    last.op = "get_next_task" =>
        LET tl == state.todo_list
            P == PendingIdx(tl)
        IN  /\ last.ret # None =>
                  \E i \in P : tl.tasks[i].task_id = last.ret
            /\ P # {} => last.ret # None
            /\ (last.ret = None) <=> (P = {})
            /\ (P # {} /\ \A i \in P : ~ResolvedIdx(tl, i)) =>
                  \E i \in P : /\ tl.tasks[i].task_id = last.ret
                                /\ \A j \in P : Before(tl, i, j)

\* the fallback happened: a pending task was returned although no pending
\* task has its dependencies resolved
C9_Witness ==
    /\ last.op = "get_next_task"
    /\ last.ret # None
    /\ \A i \in PendingIdx(state.todo_list) : ~ResolvedIdx(state.todo_list, i)

\* the pending tasks next_pending() selects among: those with every dependency
\* resolved, or every pending task when there is none of those
EligibleIdx(tl) ==
    LET R == {i \in PendingIdx(tl) : ResolvedIdx(tl, i)}
    IN  IF R # {} THEN R ELSE PendingIdx(tl)

\* C10: among the eligible pending tasks next_pending() returns the one of
\* highest priority (critical > high > medium > low) and, among those of
\* equal priority, the one created earliest.
C10_PriorityOrder ==
    last.op = "get_next_task" /\ last.ret # None =>
        LET tl == state.todo_list
        IN  \E i \in EligibleIdx(tl) :
                /\ tl.tasks[i].task_id = last.ret
                /\ \A j \in EligibleIdx(tl) : Before(tl, i, j)

\* the returned task was created after a task of lower priority, and another
\* eligible task of its own priority was created after it
C10_Witness ==
    /\ last.op = "get_next_task"
    /\ last.ret # None
    /\ LET tl == state.todo_list
           E == EligibleIdx(tl)
       IN  \E i, j \in E :
               /\ tl.tasks[i].task_id = last.ret
               /\ j < i
               /\ PriorityRank[tl.tasks[j].priority] < PriorityRank[tl.tasks[i].priority]

\* two eligible tasks of equal priority: the earlier one is returned
C10_WitnessTie ==
    /\ last.op = "get_next_task"
    /\ LET tl == state.todo_list
           E == EligibleIdx(tl)
       IN  \E i, j \in E :
               /\ i < j
               /\ tl.tasks[i].task_id = last.ret
               /\ tl.tasks[i].priority = tl.tasks[j].priority

\* C11: when at least one pending task has all of its dependencies resolved,
\* next_pending() returns a pending task none of whose dependencies is an
\* existing task that is not completed; a dependency id that references no
\* task of the list counts as resolved.
C11_SkipsUnresolved ==
    (last.op = "get_next_task"
        /\ \E i \in PendingIdx(state.todo_list) : ResolvedIdx(state.todo_list, i))
    => \E i \in PendingIdx(state.todo_list) :
           /\ state.todo_list.tasks[i].task_id = last.ret
           /\ ResolvedIdx(state.todo_list, i)

\* the returned task depends on an id that no task carries, and a pending
\* task of higher priority was skipped because it depends on an open task
C11_Witness ==
    /\ last.op = "get_next_task"
    /\ LET tl == state.todo_list
       IN  \E i, j \in PendingIdx(tl) :
               /\ tl.tasks[i].task_id = last.ret
               /\ \E d \in Range(tl.tasks[i].dependencies) : d \notin TaskIds(tl)
               /\ PriorityRank[tl.tasks[j].priority] > PriorityRank[tl.tasks[i].priority]
               /\ ~ResolvedIdx(tl, j)

\* the indexes of the tasks listed as subtasks of the task at index p
SubtaskIdx(tl, p) ==
    {i \in 1..Len(tl.tasks) : tl.tasks[i].task_id \in Range(tl.tasks[p].subtasks)}

\* C12: when update_status marks a subtask completed and thereby all subtasks
\* of its parent are completed, the parent's own status becomes completed as
\* part of that same operation.
C12_ParentAutoCompletes ==
    [][(UpdateTaskStatus /\ last'.found /\ last'.status = "completed") =>
        LET tl == state'.todo_list
            i == IndexOf(tl.tasks, last'.task_id)
            p == IndexOf(tl.tasks, tl.tasks[i].parent_task_id)
        IN  (/\ tl.tasks[i].parent_task_id # None
             /\ p # 0
             /\ \A k \in SubtaskIdx(tl, p) : tl.tasks[k].status = "completed")
            => tl.tasks[p].status = "completed"]_vars

\* C13: completing a task is idempotent: update_status(id, completed) applied
\* again to a task that is already completed with the same result leaves the
\* todo list as it was; stated here for the status, the completed-at and the
\* result of every task, which the second application must not change.
C13_CompleteIdempotent ==
    [][(/\ UpdateTaskStatus
        /\ last'.found
        /\ last'.status = "completed"
        /\ get_task(state.todo_list, last'.task_id).status = "completed"
        /\ get_task(state.todo_list, last'.task_id).result =
               (IF last'.result = NoResult THEN "" ELSE last'.result))
       => \A i \in 1..Len(state.todo_list.tasks) :
              /\ state'.todo_list.tasks[i].status = state.todo_list.tasks[i].status
              /\ state'.todo_list.tasks[i].completed_at = state.todo_list.tasks[i].completed_at
              /\ state'.todo_list.tasks[i].result = state.todo_list.tasks[i].result]_vars

\* C14: after any sequence of task-store operations the list's active_task_id
\* is either null or the id of a task currently present in the list.
C14_ActiveTaskExists ==
    \/ state.todo_list.active_task_id = None
    \/ state.todo_list.active_task_id \in TaskIds(state.todo_list)

\* C29: after any sequence of create, add_subtask, update_status and
\* remove_task operations, every id in a task's subtask list is the id of a
\* task present in the list whose parent id equals that task's id, and task
\* ids are pairwise distinct.
C29_SubtaskLinks ==
    LET tasks == state.todo_list.tasks
    IN  /\ \A i \in 1..Len(tasks) :
              \A k \in 1..Len(tasks[i].subtasks) :
                 \E j \in 1..Len(tasks) :
                    /\ tasks[j].task_id = tasks[i].subtasks[k]
                    /\ tasks[j].parent_task_id = tasks[i].task_id
        /\ \A i, j \in 1..Len(tasks) : i # j => tasks[i].task_id # tasks[j].task_id

\* a subtask has been removed and its parent, still in the list, no longer
\* lists it
C29_Witness ==
    /\ last.op = "remove_task"
    /\ last.found
    /\ last.parent # None
    /\ HasTask(state.todo_list, last.parent)
    /\ get_task(state.todo_list, last.parent).subtasks = <<>>

\* a subtask has been created under a task of the list
C29_WitnessCreated ==
    /\ last.op = "create_task"
    /\ last.task_id # None
    /\ HasTask(state.todo_list, last.task_id)
    /\ get_task(state.todo_list, last.task_id).subtasks = <<last.ret>>
    /\ get_task(state.todo_list, last.ret).parent_task_id = last.task_id

----------------------------------------------------------------------------
(* update_task_status called on todo lists of two tasks *)

\* two tasks created one after the other, the second either on its own or as
\* a subtask of the first, each then moved to a status
StatusLists ==
    {update_task_status(
         update_task_status(
             create_task(create_task(create_empty_todo_list, "Build the project",
                                     "medium", None, <<>>, 1, 1),
                         "Build the project", "medium", parent, <<>>, 2, 2),
             2, s2, NoResult, 3),
         1, s1, NoResult, 4) :
        parent \in {None, 1}, s1 \in TaskStatus \ {"completed"}, s2 \in TaskStatus}

InitStatus ==
    /\ pc = "caller"
    /\ cfg = NoCfg
    /\ state \in {[todo_list |-> tl] : tl \in StatusLists}
    /\ ret = NoRet
    /\ clock = 5
    /\ uuids = 2
    /\ ops = 0
    /\ last = NoCall

SpecStatus == InitStatus /\ [][UpdateTaskStatus]_vars

\* C28: status transitions are unrestricted: for every existing task, every
\* prior status and every requested status s, update_status(id, s) returns
\* the task with status exactly s and a refreshed updated-at, sets
\* completed-at and result only when s is completed, and changes no other
\* task; update_status on an unknown id returns not-found and changes
\* nothing.
C28_UnrestrictedStatus ==
    [][UpdateTaskStatus
       => LET before == state.todo_list
              after == state'.todo_list
              i == IndexOf(before.tasks, last'.task_id)
          IN  IF i = 0
              THEN after = before /\ last'.ret = None
              ELSE /\ last'.ret = last'.task_id
                   /\ Len(after.tasks) = Len(before.tasks)
                   /\ after.tasks[i].status = last'.status
                   /\ after.tasks[i].updated_at = clock
                   /\ IF last'.status = "completed"
                      THEN /\ after.tasks[i].completed_at = clock
                           /\ after.tasks[i].result =
                                 (IF last'.result = NoResult THEN "" ELSE last'.result)
                      ELSE /\ after.tasks[i].completed_at = before.tasks[i].completed_at
                           /\ after.tasks[i].result = before.tasks[i].result
                   /\ \A j \in 1..Len(before.tasks) :
                         j # i => after.tasks[j] = before.tasks[j]
                   /\ after.active_task_id = before.active_task_id]_vars

----------------------------------------------------------------------------
(* get_todo_list_summary called on a todo list *)

\* the list made by creating one task per status of the sequence and moving
\* each task to its status
RECURSIVE ListWithStatuses(_)
ListWithStatuses(statuses) ==
    IF statuses = <<>> THEN create_empty_todo_list
    ELSE LET n == Len(statuses)
             tl == create_task(ListWithStatuses(SubSeq(statuses, 1, n - 1)),
                               "Build the project", "medium", None, <<>>, n, 1)
         IN  IF statuses[n] = "pending" THEN tl
             ELSE update_task_status(tl, n, statuses[n], NoResult, 2)

\* every list of up to MaxListed tasks in any statuses with any active id,
\* and the lists of LargeTotal and of LargeTotal + 1 tasks of which one,
\* three, all but two, all but one or all have been completed and the others
\* are pending
SummarisedLists ==
    LET pending(i) == Task(i, "Build the project", "medium", None, <<>>, 1)
        completed(i) == UpdatedTask(create_empty_todo_list, pending(i),
                                    "completed", NoResult, 2)
        long(n, k) == [tasks |-> [i \in 1..n |->
                                     IF i <= k THEN completed(i) ELSE pending(i)],
                       active_task_id |-> None,
                       task_counter |-> n]
    IN  {set_active_task(ListWithStatuses(statuses), a) :
            statuses \in UNION {[1..n -> TaskStatus] : n \in 0..MaxListed},
            a \in 0..MaxListed}
        \cup UNION {{long(n, k) : k \in {1, 3, n - 2, n - 1, n}} :
                       n \in {LargeTotal, LargeTotal + 1}}

InitSummary ==
    /\ pc = "summary"
    /\ cfg = NoCfg
    /\ state \in {[todo_list |-> tl] : tl \in SummarisedLists}
    /\ ret = NoRet
    /\ clock = 3
    /\ uuids = Len(state.todo_list.tasks)
    /\ ops = 0
    /\ last = NoCall

GetSummary ==
    /\ pc = "summary"
    /\ last' = [op |-> "get_todo_list_summary",
                ret |-> get_todo_list_summary(state.todo_list)]
    /\ pc' = "returned"
    /\ UNCHANGED <<cfg, state, ret, clock, uuids, ops>>

SpecSummary == InitSummary /\ [][GetSummary]_vars

\* C15 as it was claimed: summary() reports total as the number of tasks,
\* completed, in_progress, pending and blocked as the number of tasks in
\* each of those statuses, active_id as the list's active task id, and the
\* completion percentage as exactly completed / total * 100 (counted here in
\* hundredths), which is 0 when total is 0 and 100 exactly when total > 0
\* and every task is completed.
C15_ExactPercentage ==
    last.op = "get_todo_list_summary" =>
        LET tl == state.todo_list
            s == last.ret
        IN  /\ s.total = Len(tl.tasks)
            /\ s.completed = CountStatus(tl, "completed")
            /\ s.in_progress = CountStatus(tl, "in_progress")
            /\ s.pending = CountStatus(tl, "pending")
            /\ s.blocked = CountStatus(tl, "blocked")
            /\ s.active_task_id = tl.active_task_id
            /\ s.total = 0 => s.completion_percentage = 0
            /\ s.total > 0 => s.completion_percentage * s.total = s.completed * 10000
            /\ (s.completion_percentage = 10000) <=>
                   (s.total > 0 /\ \A i \in 1..Len(tl.tasks) : tl.tasks[i].status = "completed")

\* C15: summary() reports total as the number of tasks, completed,
\* in_progress, pending and blocked as the number of tasks in each of those
\* statuses, active_id as the list's active task id, and the completion
\* percentage as completed / total * 100 rounded to two decimal places (the
\* hundredth nearest to the quotient, counted here in hundredths), which is
\* 0 when total is 0 and 100 when total > 0 and every task is completed; a
\* reported 100 means that the tasks not completed are at most one in
\* 20000 of the list.
C15_Summary ==
    last.op = "get_todo_list_summary" =>
        LET tl == state.todo_list
            s == last.ret
            N(status) == Cardinality({i \in 1..Len(tl.tasks) : tl.tasks[i].status = status})
            diff == s.completion_percentage * s.total - N("completed") * 10000
        IN  /\ s.total = Len(tl.tasks)
            /\ s.completed = N("completed")
            /\ s.in_progress = N("in_progress")
            /\ s.pending = N("pending")
            /\ s.blocked = N("blocked")
            /\ s.active_task_id = tl.active_task_id
            /\ s.total = 0 => s.completion_percentage = 0
            /\ s.total > 0 => (2 * diff <= s.total /\ -2 * diff <= s.total)
            /\ (s.total > 0 /\ N("completed") = s.total) => s.completion_percentage = 10000
            /\ s.completion_percentage = 10000
                   => (s.total > 0 /\ 20000 * (s.total - N("completed")) <= s.total)

\* all but one of the tasks of a long list are completed and the last one is
\* pending: the percentage is rounded up to 100
C15_WitnessRounded ==
    /\ last.op = "get_todo_list_summary"
    /\ last.ret.total = LargeTotal
    /\ last.ret.completed = LargeTotal - 1
    /\ last.ret.pending = 1
    /\ last.ret.completion_percentage = 10000

\* three of the tasks of a long list are completed: the quotient 0.015 is
\* half way between two hundredths, the float computed for it is below it
\* and 0.01 is reported
C15_WitnessTie ==
    /\ last.op = "get_todo_list_summary"
    /\ last.ret.total = LargeTotal
    /\ last.ret.completed = 3
    /\ 2 * (last.ret.completed * 10000 % last.ret.total) = last.ret.total
    /\ last.ret.completion_percentage = 1

\* two of three tasks are completed, the third is cancelled and counted in
\* no status bucket; the percentage is rounded up to 66.67
C15_Witness ==
    /\ last.op = "get_todo_list_summary"
    /\ last.ret.total = 3
    /\ last.ret.completed = 2
    /\ last.ret.pending + last.ret.in_progress + last.ret.blocked = 0
    /\ last.ret.completion_percentage = 6667
    /\ last.ret.active_task_id # None

\* the summary of the empty list
C15_WitnessEmpty ==
    /\ last.op = "get_todo_list_summary"
    /\ last.ret.total = 0
    /\ last.ret.completion_percentage = 0

----------------------------------------------------------------------------
(* The model node called once on a given state (ModelCallMiddleware.__call__) *)

UserMessage == [HumanMessage("What is 2+2?") EXCEPT !.id = 1]

Usage == [present |-> TRUE, input_tokens |-> 7, output_tokens |-> 3]

\* the tool-call requests of an assistant message: n calls, in order
Calls(n) == [i \in 1..n |-> ToolCall(<<"call_1", "call_2", "call_3", "call_4">>[i],
                                     <<"calculate", "get_weather", "read_file", "search_web">>[i])]

Responses(maxCalls) ==
    {AIMessage("The answer", <<>>, NoUsage), AIMessage("The answer", <<>>, Usage)}
        \cup {AIMessage("", Calls(n), Usage) : n \in 1..maxCalls}

\* the counters an incoming state may carry, or lack
CounterStates(key) ==
    {<<>>} \cup {[k \in {key} |-> v] : v \in 0..MaxCount}

ModelEnvs(c, maxCalls) ==
    [bind_ok : BOOLEAN, prompt_ok : BOOLEAN, failures : 0..c.max_retries,
     response : Responses(maxCalls)]

InitModelCall ==
    /\ pc = "model"
    /\ cfg \in {[max_retries |-> r, backoff_factor |-> b, initial_delay |-> d] :
                  r \in 0..MaxRetries, b \in {backoff_factor, 3}, d \in {initial_delay, 2}}
    /\ state \in {[messages |-> <<UserMessage>>] @@ cs : cs \in CounterStates("model_calls")}
    /\ ret = NoRet
    /\ clock = 1
    /\ uuids = 0
    /\ ops = 0
    /\ last = NoCall

CallModel ==
    /\ pc = "model"
    /\ \E env \in ModelEnvs(cfg, MaxBatch) :
          /\ ret' = ModelCallMiddleware(state, cfg, env)
          /\ last' = [op |-> "model", env |-> env]
    /\ pc' = "returned"
    /\ UNCHANGED <<cfg, state, clock, uuids, ops>>

SpecModelCall == InitModelCall /\ [][CallModel]_vars

\* C3: ModelInvoker.invoke returns, for every number of failed attempts and
\* every configured max_retries, a patch that contains exactly one assistant
\* message and sets model_calls to its previous value plus exactly 1; when
\* every attempt fails the one message is the fixed fallback message with no
\* tool-call requests.
C3_OneMessagePerCycle ==
    (ret.node = "model" /\ ret.kind # "raise") =>
        /\ ret.kind = "patch"
        /\ Len(ret.patch.messages) = 1
        /\ ret.patch.messages[1].type = "ai"
        /\ ret.patch.model_calls = Get(state, "model_calls", 0) + 1
        /\ last.env.failures >= cfg.max_retries =>
              /\ ret.patch.messages[1].content = "Technical difficulties. Please try again."
              /\ ret.patch.messages[1].tool_calls = <<>>

\* C4: a model-call failure is never propagated as an exception out of the
\* model node: whichever step fails (binding the tools, building the system
\* prompt, an invocation attempt), the node returns a state patch.
C4_NoExceptionEscapes ==
    ret.node = "model" => ret.kind # "raise"

\* C25: a model invocation makes at most max_retries attempts, makes no
\* further attempt after the first success, waits initial_delay *
\* backoff_factor^attempt (attempt counted from 0) between attempt number
\* attempt and the next one, and does not wait after the final failed
\* attempt. The waits are stated as a geometric sequence: the first is
\* initial_delay and each later one is backoff_factor times the one before.
C25_RetrySchedule ==
    (ret.node = "model" /\ ret.kind # "raise") =>
        /\ ret.attempts <= cfg.max_retries
        /\ ret.attempts <= last.env.failures + 1
        /\ ret.attempts < cfg.max_retries => ret.attempts = last.env.failures + 1
        /\ Len(ret.sleeps) = (IF ret.attempts = 0 THEN 0 ELSE ret.attempts - 1)
        /\ \A k \in 1..Len(ret.sleeps) :
              ret.sleeps[k] = (IF k = 1 THEN cfg.initial_delay
                               ELSE cfg.backoff_factor * ret.sleeps[k - 1])

\* every one of four configured attempts failed, with the default delay 1
\* and factor 2: three waits, of 1, 2 and 4, and none after the fourth
\* attempt
C25_Witness ==
    /\ ret.node = "model"
    /\ cfg.max_retries = 4
    /\ cfg.initial_delay = initial_delay
    /\ cfg.backoff_factor = backoff_factor
    /\ last.env.failures = 4
    /\ ret.attempts = 4
    /\ ret.sleeps = <<1, 2, 4>>
    /\ ret.patch.messages = <<FallbackMessage>>

\* the third of four configured attempts succeeded, with delay 2 and factor
\* 3: two waits, of 2 and 6, and no fourth attempt
C25_WitnessSuccess ==
    /\ ret.node = "model"
    /\ cfg.max_retries = 4
    /\ cfg.initial_delay = 2
    /\ cfg.backoff_factor = 3
    /\ last.env.failures = 2
    /\ ret.attempts = 3
    /\ ret.sleeps = <<2, 6>>
    /\ ret.patch.messages[1].content = "The answer"

----------------------------------------------------------------------------
(* The tool node called once on a given state (ToolNodeWithMiddleware.ainvoke) *)

ToolContents == {"ok", "Task completed", "completed with error"}

ToolEnvs(n) ==
    [outcomes : [1..n -> {"ok", "raise"}], handled : BOOLEAN, content : ToolContents]

LastCalls(st) == st.messages[Len(st.messages)].tool_calls

WithIds(msgs) == [i \in 1..Len(msgs) |-> [msgs[i] EXCEPT !.id = i]]

InitTools ==
    /\ pc = "tools"
    /\ cfg = NoCfg
    /\ state \in {[messages |-> WithIds(<<UserMessage, r>>), model_calls |-> 1] @@ cs :
                     r \in Responses(MaxBatch), cs \in CounterStates("tool_calls")}
    /\ ret = NoRet
    /\ clock = 1
    /\ uuids = 0
    /\ ops = 0
    /\ last = NoCall

CallTools ==
    /\ pc = "tools"
    /\ \E env \in ToolEnvs(Len(LastCalls(state))) :
          /\ ret' = ToolNodeWithMiddleware(state, env)
          /\ last' = [op |-> "tools", env |-> env]
    /\ pc' = "returned"
    /\ UNCHANGED <<cfg, state, clock, uuids, ops>>

SpecTools == InitTools /\ [][CallTools]_vars

\* a tool-result message that is marked as an error
IsErrorResult(m) == m.status = "error" \/ m.content = "Error executing tool"

\* C5: for a batch of N requests in which some calls raise, the tool node
\* returns exactly N tool-result messages in request order, each tagged with
\* its own call id and tool name, and only the calls that raised are marked
\* as errors.
C5_PerCallIsolation ==
    (ret.node = "tools" /\ LastCalls(state) # <<>>) =>
        LET calls == LastCalls(state)
            ms == ret.patch.messages
        IN  /\ Len(ms) = Len(calls)
            /\ \A i \in 1..Len(calls) :
                  /\ ms[i].type = "tool"
                  /\ ms[i].tool_call_id = calls[i].id
                  /\ ms[i].name = calls[i].name
                  /\ IsErrorResult(ms[i]) <=> (last.env.outcomes[i] = "raise")

\* C6: the tool node raises tool_calls by exactly n, the number of requests
\* of the last assistant message, whether the calls succeed or fail; with
\* n = 0 the state passes through with no field changed and no message added.
C6_ToolCallCounter ==
    ret.node = "tools" =>
        LET n == Len(LastCalls(state))
            after == Merge(state, ret.patch)
        IN  /\ ret.kind = "patch"
            /\ n > 0 => /\ ret.patch.tool_calls = Get(state, "tool_calls", 0) + n
                        /\ after.tool_calls = Get(state, "tool_calls", 0) + n
                        /\ Len(after.messages) = Len(state.messages) + n
            /\ n = 0 => after = state

\* a batch of two or more calls, one of which raised, has been counted
C6_Witness ==
    /\ ret.node = "tools"
    /\ Len(LastCalls(state)) >= 2
    /\ \E i \in 1..Len(LastCalls(state)) : last.env.outcomes[i] = "raise"
    /\ ret.patch.tool_calls = Get(state, "tool_calls", 0) + Len(LastCalls(state))

\* a state whose last message carries no request has passed through
C6_WitnessPassThrough ==
    /\ ret.node = "tools"
    /\ LastCalls(state) = <<>>
    /\ ret.patch = state

----------------------------------------------------------------------------
(* agent/middleware/todo.py: what the analyzers read in a text *)

SimpleRequest == "What is 2+2?"
ComplexRequest == "Build and deploy the project"
ProgressReport == "The build is done"
LongRequest ==
    "Please tell me in a few words what the weather was like in each of the last ten years in the cities of Paris, Rome, Oslo, Bonn, Kiel, Graz, Linz, Bern and Nice"
LongComplexRequest ==
    "Please build a small web page that shows the weather of the last ten years in the cities of Paris, Rome, Oslo, Bonn, Kiel, Graz, Linz, Bern and Nice and then deploy it to our server so that we all can use it"

\* user_request.strip()[:150], with "..." appended when the request is longer
Truncate150(text) ==
    CASE text = LongRequest ->
            "Please tell me in a few words what the weather was like in each of the last ten years in the cities of Paris, Rome, Oslo, Bonn, Kiel, Graz, Linz, Bern..."
      [] text = LongComplexRequest ->
            "Please build a small web page that shows the weather of the last ten years in the cities of Paris, Rome, Oslo, Bonn, Kiel, Graz, Linz, Bern and Nice a..."
      [] OTHER -> text

\* len(request_lower.split())
WordCount(text) ==
    CASE text = SimpleRequest -> 3
      [] text = ComplexRequest -> 5
      [] text = ProgressReport -> 4
      [] text = LongRequest -> 33
      [] text = LongComplexRequest -> 43
      [] OTHER -> 2

\* number of COMPLEXITY_KEYWORDS found in the lowercased request
KeywordMatches(text) ==
    CASE text = ComplexRequest -> 3      \* build, deploy, project
      [] text = ProgressReport -> 1      \* build
      [] text = LongComplexRequest -> 2  \* build, deploy
      [] OTHER -> 0

\* the statuses whose progress indicators occur in a user message
UserIndicators(text) ==
    IF text = ProgressReport THEN {"completed"} ELSE {}     \* done

\* whether one of the first ten words of the message occurs in the task content
SharesWord(message, content) ==
    \/ content \in {Truncate150(LongRequest), Truncate150(LongComplexRequest)}
    \/ /\ content \in {ComplexRequest, "Build the project"}
       /\ message \in {ComplexRequest, ProgressReport, LongRequest, LongComplexRequest}

\* content of the last human message, "" when there is none
RECURSIVE LastUserMessage(_)
LastUserMessage(messages) ==
    IF messages = <<>> THEN ""
    ELSE IF messages[Len(messages)].type = "human"
    THEN messages[Len(messages)].content
    ELSE LastUserMessage(SubSeq(messages, 1, Len(messages) - 1))

----------------------------------------------------------------------------
(* TaskComplexityDetector *)

NoTodoNeeded == [needs_todo_list |-> FALSE, suggested_tasks |-> <<>>, active_task_id |-> None]

\* TaskBreakdownItem.normalize_priority: a missing priority (NoResult) and any
\* value that is not low, medium or high once lower-cased and stripped give
\* medium; v_lower is v.lower().strip() on the spellings an answer may carry
normalize_priority(v) ==
    LET v_lower ==
            IF v \in {"low", "Low", "LOW", " low "} THEN "low"
            ELSE IF v \in {"medium", "Medium", "MEDIUM", " medium "} THEN "medium"
            ELSE IF v \in {"high", "High", "HIGH", " high "} THEN "high"
            ELSE IF v \in {"critical", "Critical", "CRITICAL", " critical "}
            THEN "critical"
            ELSE v
    IN  IF v = NoResult THEN "medium"
        ELSE IF v_lower \in {"low", "medium", "high"} THEN v_lower
        ELSE "medium"

TaskBreakdownItem(content, priority) ==
    [content |-> content, priority |-> normalize_priority(priority)]

\* mutant: a todo list is needed only when both tests pass
heuristic_analysis_both(user_request) ==
    LET word_count == WordCount(user_request)
        keyword_matches == KeywordMatches(user_request)
    IN  IF word_count >= 30 /\ keyword_matches >= 2
        THEN [needs_todo_list |-> TRUE,
              suggested_tasks |->
                  <<TaskBreakdownItem(Truncate150(user_request),
                        IF keyword_matches >= 2 THEN "high" ELSE "medium")>>,
              active_task_id |-> None]
        ELSE NoTodoNeeded

heuristic_analysis(user_request) ==
    LET word_count == WordCount(user_request)
        keyword_matches == KeywordMatches(user_request)
    IN  IF word_count >= 30 \/ keyword_matches >= 2
        THEN [needs_todo_list |-> TRUE,
              suggested_tasks |->
                  <<TaskBreakdownItem(Truncate150(user_request),
                        IF keyword_matches >= 2 THEN "high" ELSE "medium")>>,
              active_task_id |-> None]
        ELSE NoTodoNeeded

\* whether analyze calls _llm_analysis, which invokes the model
llm_analysis_called(approach, existing_todo_count) ==
    existing_todo_count = 0 /\ approach # "heuristic" /\ approach \in {"llm", "auto"}

\* mutant: the analysis runs although the list already has tasks
analyze_complexity_always(approach, user_request, existing_todo_count, env) ==
    IF approach = "heuristic" THEN heuristic_analysis(user_request)
    ELSE IF env.llm = "ok" THEN env.result
    ELSE IF approach = "auto" THEN heuristic_analysis(user_request)
    ELSE NoTodoNeeded

\* mutant: a failed model-assisted analysis yields no list under every policy
analyze_complexity_no_fallback(approach, user_request, existing_todo_count, env) ==
    IF existing_todo_count > 0 THEN NoTodoNeeded
    ELSE IF approach = "heuristic" THEN heuristic_analysis(user_request)
    ELSE IF env.llm = "ok" THEN env.result
    ELSE NoTodoNeeded

\* env.llm tells how the model-assisted analysis went: "ok" with env.result,
\* "unparsable" (it returns None) or "raise"
analyze_complexity(approach, user_request, existing_todo_count, env) ==
    IF existing_todo_count > 0 THEN NoTodoNeeded
    ELSE IF approach = "heuristic" THEN heuristic_analysis(user_request)
    ELSE IF approach \in {"llm", "auto"}
    THEN IF env.llm = "ok" THEN env.result
         ELSE IF approach = "auto" THEN heuristic_analysis(user_request)
         ELSE NoTodoNeeded
    ELSE NoTodoNeeded

----------------------------------------------------------------------------
(* TodoProgressAnalyzer *)

TodoProgressResult(completed_task_id, should_replan, next_task_id) ==
    [completed_task_id |-> completed_task_id, should_replan |-> should_replan,
     next_task_id |-> next_task_id]

\* mutant: a completion keyword is looked at before a failure keyword
heuristic_analyze_completion_first(active_task, tool_result) ==
    LET completed == "completed" \in KeywordsIn(tool_result)
        has_error == "error" \in KeywordsIn(tool_result)
    IN  IF completed THEN TodoProgressResult(active_task.task_id, FALSE, None)
        ELSE IF has_error THEN TodoProgressResult(None, TRUE, active_task.task_id)
        ELSE TodoProgressResult(None, FALSE, active_task.task_id)

heuristic_analyze(active_task, tool_result) ==
    LET completed == "completed" \in KeywordsIn(tool_result)
        has_error == "error" \in KeywordsIn(tool_result)
    IN  IF has_error THEN TodoProgressResult(None, TRUE, active_task.task_id)
        ELSE IF completed THEN TodoProgressResult(active_task.task_id, FALSE, None)
        ELSE TodoProgressResult(None, FALSE, active_task.task_id)

\* whether analyze reaches self._llm_analyze
llm_analyze_called(tl) ==
    /\ tl.tasks # <<>>
    /\ tl.active_task_id # None
    /\ HasTask(tl, tl.active_task_id)

\* mutant: the model is asked before the active task is looked up
analyze_progress_llm_first(tl, tool_result, env) ==
    IF tl.tasks = <<>> THEN TodoProgressResult(None, FALSE, None)
    ELSE IF tl.active_task_id = None
    THEN TodoProgressResult(None, FALSE, get_next_task(tl))
    ELSE IF env.llm = "ok" THEN env.result
    ELSE IF ~HasTask(tl, tl.active_task_id)
    THEN TodoProgressResult(None, TRUE, None)
    ELSE heuristic_analyze(get_task(tl, tl.active_task_id), tool_result)

analyze_progress(tl, tool_result, env) ==
    IF tl.tasks = <<>> THEN TodoProgressResult(None, FALSE, None)
    ELSE IF tl.active_task_id = None
    THEN TodoProgressResult(None, FALSE, get_next_task(tl))
    ELSE IF ~HasTask(tl, tl.active_task_id)
    THEN TodoProgressResult(None, TRUE, None)
    ELSE IF env.llm = "ok" THEN env.result
    ELSE heuristic_analyze(get_task(tl, tl.active_task_id), tool_result)

----------------------------------------------------------------------------
(* The middleware nodes (agent/middleware/base.py, tracking.py, todo.py) *)

\* BaseMiddleware.__call__ around the before_model hook of a node
BaseMiddlewareCall(r) ==
    IF r.kind = "raise"
    THEN Returned(r.node, [_middleware_error |-> [middleware |-> r.node]])
    ELSE IF r.kind = "none" THEN Returned(r.node, <<>>)
    ELSE r

StartMiddleware(now) ==
    Returned("start",
        [start_time |-> now, model_calls |-> 0, tool_calls |-> 0, total_tokens |-> 0,
         input_tokens |-> 0, output_tokens |-> 0,
         token_warning_shown |-> FALSE, token_warning_message |-> ""])

EndMiddleware(node) == Returned(node, <<>>)

\* MemoryLoaderMiddleware and PIIDetectionMiddleware define no before_model
default_before_model(node) == ReturnedNone(node)

\* the patch MemoryLoaderMiddleware.before_agent returns when it is called
MemoryLoaderMiddleware_before_agent(now) ==
    Returned("memory",
        [long_term_memory |->
            [facts |-> <<"User prefers concise responses", "User is a developer">>,
             preferences |-> [language |-> "en", timezone |-> "UTC"]],
         user_preferences |->
            [tone |-> "professional", detail_level |-> "medium", format |-> "markdown"],
         session_context |-> [loaded_at |-> now, memory_items |-> 2]])

SummarizationMiddleware_before_model(st, c, env) ==
    IF Get(st, "total_tokens", 0) >= c.summarization_threshold
    THEN IF env.llm = "raise" THEN Raised("summarize")
         ELSE Returned("summarize",
                  [long_term_memory |->
                      [summary |-> "Summary"] @@ Get(st, "long_term_memory", <<>>)])
    ELSE ReturnedNone("summarize")

HasTasks(st) == "todo_list" \in DOMAIN st /\ st.todo_list.tasks # <<>>

\* one status of progress_indicators tried on one task
ApplyIndicator(tl, i, status, message, now) ==
    IF /\ status \in UserIndicators(message)
       /\ SharesWord(message, tl.tasks[i].content)
       /\ tl.tasks[i].status # status
    THEN update_task_status(tl, tl.tasks[i].task_id, status, NoResult, now)
    ELSE tl

\* TodoMiddleware._analyze_progress from task i on; the list it leaves
RECURSIVE TodoMiddleware_analyze_progress(_, _, _, _)
TodoMiddleware_analyze_progress(tl, i, message, now) ==
    IF i > Len(tl.tasks) THEN tl
    ELSE LET a == ApplyIndicator(tl, i, "completed", message, now)
             b == ApplyIndicator(a, i, "in_progress", message, now)
             c == ApplyIndicator(b, i, "blocked", message, now)
         IN  TodoMiddleware_analyze_progress(c, i + 1, message, now)

TodoMiddleware_before_model(st, c, now) ==
    IF ~c.enable_todo_list THEN ReturnedNone("todo")
    ELSE IF "todo_list" \notin DOMAIN st THEN ReturnedNone("todo")
    ELSE LET tl == st.todo_list
             message == LastUserMessage(st.messages)
         IN  IF /\ st.messages # <<>>
                /\ tl.tasks # <<>>
                /\ message # ""
                /\ TodoMiddleware_analyze_progress(tl, 1, message, now) # tl
             THEN Returned("todo",
                      [todo_list |-> TodoMiddleware_analyze_progress(tl, 1, message, now)])
             ELSE ReturnedNone("todo")

\* the suggested tasks created one after the other
RECURSIVE CreateAll(_, _, _, _)
CreateAll(tl, items, uuid0, now) ==
    IF items = <<>> THEN tl
    ELSE CreateAll(create_task(tl, items[1].content, items[1].priority, None, <<>>,
                               uuid0 + 1, now),
                   Tail(items), uuid0 + 1, now)

\* mutant: the planner plans again although the list already has tasks
TodoPlannerMiddleware_before_model_replans(st, c, env, uuid0, now) ==
    LET tl == Get(st, "todo_list", create_empty_todo_list)
        message == LastUserMessage(st.messages)
        result == analyze_complexity(c.todo_complexity_approach, message, 0, env)
        created == CreateAll(tl, result.suggested_tasks, uuid0, now)
        active == IF result.active_task_id # None
                  THEN set_active_task(created, result.active_task_id)
                  ELSE IF get_next_task(created) # None
                  THEN set_active_task(created, get_next_task(created))
                  ELSE created
    IN  IF ~c.enable_todo_planner THEN ReturnedNone("todo_planner")
        ELSE IF st.messages = <<>> THEN ReturnedNone("todo_planner")
        ELSE IF message = "" THEN ReturnedNone("todo_planner")
        ELSE IF result.needs_todo_list /\ result.suggested_tasks # <<>>
        THEN Returned("todo_planner", [todo_list |-> active])
        ELSE ReturnedNone("todo_planner")

TodoPlannerMiddleware_before_model(st, c, env, uuid0, now) ==
    LET tl == Get(st, "todo_list", create_empty_todo_list)
        message == LastUserMessage(st.messages)
        result == analyze_complexity(c.todo_complexity_approach, message,
                                     Len(tl.tasks), env)
        created == CreateAll(tl, result.suggested_tasks, uuid0, now)
        active == IF result.active_task_id # None
                  THEN set_active_task(created, result.active_task_id)
                  ELSE IF get_next_task(created) # None
                  THEN set_active_task(created, get_next_task(created))
                  ELSE created
    IN  IF ~c.enable_todo_planner THEN ReturnedNone("todo_planner")
        ELSE IF tl.tasks # <<>> THEN ReturnedNone("todo_planner")
        ELSE IF st.messages = <<>> THEN ReturnedNone("todo_planner")
        ELSE IF message = "" THEN ReturnedNone("todo_planner")
        ELSE IF result.needs_todo_list /\ result.suggested_tasks # <<>>
        THEN Returned("todo_planner", [todo_list |-> active])
        ELSE ReturnedNone("todo_planner")

\* TodoProgressMiddleware._get_last_tool_execution
RECURSIVE LastToolMessage(_)
LastToolMessage(messages) ==
    IF messages = <<>> THEN 0
    ELSE IF messages[Len(messages)].type = "tool" THEN Len(messages)
    ELSE LastToolMessage(SubSeq(messages, 1, Len(messages) - 1))

get_last_tool_execution(st) ==
    LET messages == Get(st, "messages", <<>>)
        i == LastToolMessage(messages)
    IN  IF i # 0
        THEN [found |-> TRUE, name |-> messages[i].name, result |-> messages[i].content]
        ELSE IF messages # <<>> /\ messages[Len(messages)].tool_calls # <<>>
        THEN [found |-> TRUE, name |-> messages[Len(messages)].tool_calls[1].name,
              result |-> "Tool was called"]
        ELSE [found |-> FALSE, name |-> "", result |-> ""]

\* what TodoProgressMiddleware does with the result of the analysis
ApplyProgressResult(tl, result, now) ==
    LET tl1 == IF result.completed_task_id # None
               THEN update_task_status(tl, result.completed_task_id, "completed",
                                       NoResult, now)
               ELSE tl
        tl2 == IF result.should_replan THEN set_active_task(tl1, None) ELSE tl1
        tl3 == IF result.next_task_id # None
               THEN set_active_task(tl2, result.next_task_id)
               ELSE tl2
        touched == \/ result.completed_task_id # None
                   \/ result.should_replan
                   \/ result.next_task_id # None
    IN  Returned("todo_progress",
            (IF touched THEN [todo_list |-> tl3] ELSE <<>>)
                @@ (IF result.should_replan
                    THEN [_needs_todo_replan |-> TRUE] ELSE <<>>))

TodoProgressMiddleware(st, c, env, now) ==
    IF ~c.enable_todo_planner THEN Returned("todo_progress", <<>>)
    ELSE IF ~HasTasks(st) THEN Returned("todo_progress", <<>>)
    ELSE IF ~get_last_tool_execution(st).found THEN Returned("todo_progress", <<>>)
    ELSE CHOOSE updates \in
             {ApplyProgressResult(st.todo_list, result, now) :
                 result \in {analyze_progress(st.todo_list,
                                              get_last_tool_execution(st).result, env)}} :
             TRUE

TodoCheckerMiddleware(st, c) ==
    IF ~c.enable_todo_planner THEN Returned("todo_check", [_todo_route |-> "model"])
    ELSE IF ~HasTasks(st) THEN Returned("todo_check", [_todo_route |-> "model"])
    ELSE IF Get(st, "_needs_todo_replan", FALSE)
    THEN Returned("todo_check",
             [_todo_route |-> "todo_planner", _needs_todo_replan |-> FALSE])
    ELSE IF /\ get_todo_list_summary(st.todo_list).pending = 0
            /\ get_todo_list_summary(st.todo_list).in_progress = 0
    THEN Returned("todo_check", [_todo_route |-> "model"])
    ELSE IF st.todo_list.active_task_id = None /\ get_next_task(st.todo_list) # None
    THEN Returned("todo_check",
             [_todo_route |-> "model",
              todo_list |-> set_active_task(st.todo_list, get_next_task(st.todo_list))])
    ELSE Returned("todo_check", [_todo_route |-> "model"])

\* The dictionary a todo node received, as the node leaves it: the node works
\* on the todo_list object of that dictionary and assigns keys of it.

TodoMiddleware_received(st, c, now) ==
    IF ~c.enable_todo_list THEN st
    ELSE IF "todo_list" \notin DOMAIN st
    THEN [todo_list |-> create_empty_todo_list] @@ st
    ELSE IF /\ st.messages # <<>>
            /\ st.todo_list.tasks # <<>>
            /\ LastUserMessage(st.messages) # ""
    THEN [st EXCEPT !.todo_list =
             TodoMiddleware_analyze_progress(@, 1, LastUserMessage(st.messages), now)]
    ELSE st

TodoPlannerMiddleware_received(st, c, env, uuid0, now) ==
    LET r == TodoPlannerMiddleware_before_model(st, c, env, uuid0, now)
    IN  IF r.kind = "patch" THEN [todo_list |-> r.patch.todo_list] @@ st ELSE st

TodoProgressMiddleware_received(st, c, env, now) ==
    IF ~c.enable_todo_planner \/ ~HasTasks(st) \/ ~get_last_tool_execution(st).found
    THEN st
    ELSE LET tl == st.todo_list
             result == analyze_progress(tl, get_last_tool_execution(st).result, env)
             tl1 == IF result.completed_task_id # None
                    THEN update_task_status(tl, result.completed_task_id, "completed",
                                            NoResult, now)
                    ELSE tl
             tl2 == IF result.should_replan THEN set_active_task(tl1, None) ELSE tl1
             tl3 == IF result.next_task_id # None
                    THEN set_active_task(tl2, result.next_task_id)
                    ELSE tl2
         IN  (IF result.should_replan THEN [_needs_todo_replan |-> TRUE] ELSE <<>>)
                @@ [st EXCEPT !.todo_list = tl3]

TodoCheckerMiddleware_received(st, c) ==
    IF ~c.enable_todo_planner \/ ~HasTasks(st) THEN st
    ELSE IF Get(st, "_needs_todo_replan", FALSE)
    THEN [st EXCEPT !._needs_todo_replan = FALSE]
    ELSE IF /\ get_todo_list_summary(st.todo_list).pending = 0
            /\ get_todo_list_summary(st.todo_list).in_progress = 0
    THEN st
    ELSE IF st.todo_list.active_task_id = None /\ get_next_task(st.todo_list) # None
    THEN [st EXCEPT !.todo_list = set_active_task(@, get_next_task(@))]
    ELSE st

----------------------------------------------------------------------------
(* agent/graph.py *)

should_continue(st) ==
    IF st.messages[Len(st.messages)].tool_calls # <<>> THEN "tools" ELSE "end"

should_end_after_todo(st) ==
    IF ~HasTasks(st) THEN "end"
    ELSE IF /\ get_todo_list_summary(st.todo_list).pending = 0
            /\ get_todo_list_summary(st.todo_list).in_progress = 0
    THEN "end"
    ELSE "continue"

\* mutant: the test for a list whose tasks are all done is left out
should_check_todo_completion_no_done_test(st) ==
    IF ~HasTasks(st) THEN "continue"
    ELSE IF Get(st, "_needs_todo_replan", FALSE) THEN "todo_check"
    ELSE "todo_check"

should_check_todo_completion(st) ==
    IF ~HasTasks(st) THEN "continue"
    ELSE IF Get(st, "_needs_todo_replan", FALSE) THEN "todo_check"
    ELSE IF /\ get_todo_list_summary(st.todo_list).pending = 0
            /\ get_todo_list_summary(st.todo_list).in_progress = 0
    THEN "continue"
    ELSE IF st.todo_list.active_task_id = None THEN "todo_check"
    ELSE "continue"

should_replan_or_continue(st) ==
    LET route == Get(st, "_todo_route", "model")
    IN  IF route \in {"todo_planner", "model"} THEN route ELSE "model"

\* the linear flow of build_graph: start, the enabled optional nodes, model
LinearFlow(c) ==
    <<"start">>
        \o (IF c.enable_memory_loader THEN <<"memory">> ELSE <<>>)
        \o (IF c.enable_token_tracking THEN <<"token_count">> ELSE <<>>)
        \o (IF c.enable_summarization THEN <<"summarize">> ELSE <<>>)
        \o (IF c.enable_todo_list \/ c.enable_todo_planner THEN <<"todo">> ELSE <<>>)
        \o (IF c.enable_todo_planner THEN <<"todo_planner">> ELSE <<>>)
        \o <<"model">>

\* mutant: the tools node leads straight back to the model node
RouteAfter_tools_to_model(c, node, st) ==
    CASE node = "model" ->
            IF should_continue(st) = "tools" THEN "tools" ELSE "end_flow"
      [] node = "tools" -> "model"
      [] node = "todo_progress" ->
            IF should_check_todo_completion(st) = "todo_check"
            THEN "todo_check" ELSE "end_flow"
      [] node = "todo_check" -> should_replan_or_continue(st)
      [] node = "end_flow" ->
            IF c.enable_pii_detection THEN "pii_detect"
            ELSE IF should_end_after_todo(st) = "end" THEN "end" ELSE "model"
      [] node = "pii_detect" ->
            IF should_end_after_todo(st) = "end" THEN "end" ELSE "model"
      [] node = "end" -> "END"
      [] OTHER ->
            LET flow == LinearFlow(c)
                i == CHOOSE k \in 1..Len(flow) : flow[k] = node
            IN  flow[i + 1]

\* the node the edges of build_graph lead to from node, in state st
RouteAfter(c, node, st) ==
    CASE node = "model" ->
            IF should_continue(st) = "tools" THEN "tools" ELSE "end_flow"
      [] node = "tools" ->
            IF c.enable_todo_planner THEN "todo_progress" ELSE "end_flow"
      [] node = "todo_progress" ->
            IF should_check_todo_completion(st) = "todo_check"
            THEN "todo_check" ELSE "end_flow"
      [] node = "todo_check" -> should_replan_or_continue(st)
      [] node = "end_flow" ->
            IF c.enable_pii_detection THEN "pii_detect"
            ELSE IF should_end_after_todo(st) = "end" THEN "end" ELSE "model"
      [] node = "pii_detect" ->
            IF should_end_after_todo(st) = "end" THEN "end" ELSE "model"
      [] node = "end" -> "END"
      [] OTHER ->
            LET flow == LinearFlow(c)
                i == CHOOSE k \in 1..Len(flow) : flow[k] = node
            IN  flow[i + 1]

----------------------------------------------------------------------------
(* One turn of the graph built by build_graph *)

Config(memory, tokens, summarize, todo, planner, pii, approach, threshold, retries, calls) ==
    [enable_memory_loader |-> memory,
     enable_token_tracking |-> tokens,
     enable_summarization |-> summarize,
     enable_todo_list |-> todo,
     enable_todo_planner |-> planner,
     enable_pii_detection |-> pii,
     todo_complexity_approach |-> approach,
     summarization_threshold |-> threshold,
     max_retries |-> retries,
     backoff_factor |-> backoff_factor,
     initial_delay |-> initial_delay,
     max_model_calls |-> calls]

\* the configurations explored: no optional node, the defaults, the todo node
\* alone with no retry, the planner alone, the planner with a model-only
\* detector and an immediate summarization
ConfigsWith(calls) ==
    {Config(FALSE, FALSE, FALSE, FALSE, FALSE, FALSE, "auto", 135000, 1, calls),
     Config(TRUE, TRUE, TRUE, TRUE, TRUE, TRUE, "auto", 135000, MaxRetries, calls),
     Config(FALSE, FALSE, FALSE, TRUE, FALSE, FALSE, "auto", 135000, 0, calls),
     Config(FALSE, FALSE, FALSE, FALSE, TRUE, TRUE, "heuristic", 135000, 1, calls),
     Config(FALSE, FALSE, TRUE, TRUE, TRUE, FALSE, "llm", 0, 1, calls)}

GraphConfigs == UNION {ConfigsWith(calls) : calls \in 1..(MaxCycles - 1)}

\* a todo list left by an earlier turn: one pending task, none active
OneTaskList == create_task(create_empty_todo_list, ComplexRequest, "medium", None, <<>>, 1, 1)

IncomingTodo == {<<>>, [todo_list |-> create_empty_todo_list], [todo_list |-> OneTaskList]}

Init ==
    /\ pc = "start"
    /\ cfg \in GraphConfigs
    /\ state \in {[messages |-> WithIds(<<HumanMessage(r)>>)] @@ t :
                     r \in {SimpleRequest, ComplexRequest, ProgressReport,
                            LongComplexRequest},
                     t \in IncomingTodo}
    /\ ret = NoRet
    /\ uuids = Len(Get(state, "todo_list", create_empty_todo_list).tasks)
    /\ clock = 1 + uuids
    /\ ops = 0
    /\ last = NoCall

\* a node has run: its patch is merged into the state and the graph follows
\* the edge out of the node; an exception leaves the graph
Advance(node, returned, how) ==
    \E r \in {returned}, merged \in {Merge(state, returned.patch)} :
        /\ ret' = r
        /\ IF r.kind = "raise"
           THEN state' = state /\ pc' = "raised"
           ELSE state' = merged /\ pc' = RouteAfter(cfg, node, merged)
        /\ last' = [op |-> how, node |-> node]
        /\ uuids' = IF r.kind = "patch" /\ "todo_list" \in DOMAIN r.patch
                    THEN uuids + Len(r.patch.todo_list.tasks)
                             - Len(Get(state, "todo_list", create_empty_todo_list).tasks)
                    ELSE uuids

Start ==
    /\ pc = "start"
    /\ Advance("start", StartMiddleware(clock), "call")
    /\ clock' = clock + 1
    /\ UNCHANGED <<cfg, ops>>

Memory ==
    /\ pc = "memory"
    /\ Advance("memory", BaseMiddlewareCall(default_before_model("memory")), "call")
    /\ UNCHANGED <<cfg, clock, ops>>

\* the class of this node is not part of the sources: it passes the state on
TokenCount ==
    /\ pc = "token_count"
    /\ Advance("token_count", Returned("token_count", <<>>), "call")
    /\ UNCHANGED <<cfg, clock, ops>>

Summarize ==
    /\ pc = "summarize"
    /\ \E env \in [llm : {"ok", "raise"}] :
          Advance("summarize",
                  BaseMiddlewareCall(SummarizationMiddleware_before_model(state, cfg, env)),
                  "call")
    /\ UNCHANGED <<cfg, clock, ops>>

Todo ==
    /\ pc = "todo"
    /\ Advance("todo", BaseMiddlewareCall(TodoMiddleware_before_model(state, cfg, clock)),
               "call")
    /\ clock' = clock + 1
    /\ UNCHANGED <<cfg, ops>>

\* what the model-assisted complexity analysis may answer
PlannerResults ==
    {NoTodoNeeded,
     [needs_todo_list |-> TRUE, suggested_tasks |-> <<>>, active_task_id |-> None],
     [needs_todo_list |-> TRUE,
      suggested_tasks |-> <<TaskBreakdownItem("Step one", "critical")>>,
      active_task_id |-> None],
     [needs_todo_list |-> TRUE,
      suggested_tasks |-> <<TaskBreakdownItem("Step one", "Low"),
                            TaskBreakdownItem("Step two", "HIGH")>>,
      active_task_id |-> GhostId]}

PlannerEnvs ==
    {[llm |-> l, result |-> NoTodoNeeded] : l \in {"raise", "unparsable"}}
        \cup {[llm |-> "ok", result |-> r] : r \in PlannerResults}

TodoPlanner ==
    /\ pc = "todo_planner"
    /\ \E env \in PlannerEnvs :
          Advance("todo_planner",
                  BaseMiddlewareCall(
                      TodoPlannerMiddleware_before_model(state, cfg, env, uuids, clock)),
                  "call")
    /\ clock' = clock + 1
    /\ UNCHANGED <<cfg, ops>>

Model ==
    /\ pc = "model"
    /\ Get(state, "model_calls", 0) < MaxCycles
    /\ \E env \in ModelEnvs(cfg, TurnBatch) :
          Advance("model", ModelCallMiddleware(state, cfg, env), "call")
    /\ UNCHANGED <<cfg, clock, ops>>

Tools ==
    /\ pc = "tools"
    /\ \E env \in ToolEnvs(Len(LastCalls(state))) :
          Advance("tools", ToolNodeWithMiddleware(state, env), "call")
    /\ UNCHANGED <<cfg, clock, ops>>

\* what the model-assisted progress analysis may answer
ProgressEnvs(tl) ==
    {[llm |-> l, result |-> TodoProgressResult(None, FALSE, None)] :
        l \in {"raise", "unparsable"}}
        \cup {[llm |-> "ok", result |-> r] :
                 r \in {TodoProgressResult(tl.active_task_id, FALSE, None),
                        TodoProgressResult(None, TRUE, None),
                        TodoProgressResult(None, FALSE, GhostId)}}

TodoProgress ==
    /\ pc = "todo_progress"
    /\ \E env \in ProgressEnvs(Get(state, "todo_list", create_empty_todo_list)) :
          Advance("todo_progress", TodoProgressMiddleware(state, cfg, env, clock), "call")
    /\ clock' = clock + 1
    /\ UNCHANGED <<cfg, ops>>

TodoCheck ==
    /\ pc = "todo_check"
    /\ Advance("todo_check", TodoCheckerMiddleware(state, cfg), "call")
    /\ UNCHANGED <<cfg, clock, ops>>

EndFlow ==
    /\ pc = "end_flow"
    /\ Advance("end_flow", EndMiddleware("end_flow"), "call")
    /\ UNCHANGED <<cfg, clock, ops>>

PiiDetect ==
    /\ pc = "pii_detect"
    /\ Advance("pii_detect", BaseMiddlewareCall(default_before_model("pii_detect")), "call")
    /\ UNCHANGED <<cfg, clock, ops>>

End ==
    /\ pc = "end"
    /\ Advance("end", EndMiddleware("end"), "call")
    /\ UNCHANGED <<cfg, clock, ops>>

Next ==
    \/ Start \/ Memory \/ TokenCount \/ Summarize \/ Todo \/ TodoPlanner
    \/ Model \/ Tools \/ TodoProgress \/ TodoCheck \/ EndFlow \/ PiiDetect \/ End

Spec == Init /\ [][Next]_vars

\* the graph runtime always runs the node the last edge led to
Fairness ==
    /\ WF_vars(Start) /\ WF_vars(Memory) /\ WF_vars(TokenCount) /\ WF_vars(Summarize)
    /\ WF_vars(Todo) /\ WF_vars(TodoPlanner) /\ WF_vars(Model) /\ WF_vars(Tools)
    /\ WF_vars(TodoProgress) /\ WF_vars(TodoCheck) /\ WF_vars(EndFlow)
    /\ WF_vars(PiiDetect) /\ WF_vars(End)

SpecLive == Init /\ [][Next]_vars /\ Fairness

\* C1: in every turn the model node executes at most max_model_calls times,
\* whatever the model answers and whatever the todo list holds; with
\* max_model_calls = 1 the turn ends after exactly one model cycle.
C1_ModelCallCeiling ==
    Get(state, "model_calls", 0) <= cfg.max_model_calls

\* C2: every turn eventually reaches the end node, whatever the model, the
\* tools and the analyzers do, also when the todo list keeps a pending task
\* that is never completed. Stated here in the weaker form that every turn
\* eventually stops or leaves the explored model cycles.
C2_TurnEnds ==
    <>(pc \in {"END", "raised"} \/ Get(state, "model_calls", 0) >= MaxCycles)

\* the graph runtime runs the closing nodes once an edge has led to them
FairnessEnding == WF_vars(EndFlow) /\ WF_vars(PiiDetect) /\ WF_vars(End)

SpecEnding == Init /\ [][Next]_vars /\ FairnessEnding

\* the assistant messages of the state, in order
AssistantMessages(st) ==
    LET IsAssistant(m) == m.type = "ai"
    IN  SelectSeq(st.messages, IsAssistant)

\* the turn has no todo list with tasks and the model's first response
\* carries no tool-call request
PlainAnswerTurn(st) ==
    /\ ~HasTasks(st)
    /\ AssistantMessages(st) # <<>>
    /\ AssistantMessages(st)[1].tool_calls = <<>>

\* C19: in a turn in which no todo list with tasks is created and the model's
\* first response carries no tool-call request, exactly one model cycle runs,
\* no tool is executed, the end node is reached, and the final state has
\* model_calls = 1, tool_calls = 0 and a non-empty message list.
C19_PlainAnswerTurn ==
    /\ [](PlainAnswerTurn(state) =>
            /\ state.model_calls = 1
            /\ state.tool_calls = 0
            /\ Len(AssistantMessages(state)) = 1
            /\ \A i \in 1..Len(state.messages) : state.messages[i].type # "tool"
            /\ pc \in {"end_flow", "pii_detect", "end", "END"})
    /\ (PlainAnswerTurn(state) ~> (pc = "END" /\ PlainAnswerTurn(state)))

\* the turn of the request "What is 2+2?" has ended after one plain answer,
\* with every optional node enabled
C19_Witness ==
    /\ pc = "END"
    /\ PlainAnswerTurn(state)
    /\ cfg.enable_todo_planner /\ cfg.enable_pii_detection
    /\ LastUserMessage(state.messages) = SimpleRequest
    /\ state.model_calls = 1
    /\ state.tool_calls = 0

\* C20: with the todo planner enabled and no existing task, a request of at
\* least 30 words with at least two complexity keywords gives a todo list of
\* at least one task whose active_task_id references one of its tasks, both
\* in place before the first model cycle of the turn begins.
C20_PlannedBeforeModel ==
    [][(/\ TodoPlanner
        /\ cfg.enable_todo_planner
        /\ ~HasTasks(state)
        /\ Get(state, "model_calls", 0) = 0
        /\ LastUserMessage(state.messages) = LongComplexRequest)
       => /\ pc' = "model"
          /\ HasTasks(state')
          /\ state'.todo_list.active_task_id \in TaskIds(state'.todo_list)]_vars

\* the todo-progress node is about to run with an active task of the list
\* and a last tool result that holds a completion keyword and no failure
\* keyword
CompletionReported(st) ==
    /\ cfg.enable_todo_planner
    /\ HasTasks(st)
    /\ st.todo_list.active_task_id # None
    /\ HasTask(st.todo_list, st.todo_list.active_task_id)
    /\ get_last_tool_execution(st).found
    /\ "completed" \in KeywordsIn(get_last_tool_execution(st).result)
    /\ "error" \notin KeywordsIn(get_last_tool_execution(st).result)

\* C21: when a task is active and the last tool result contains a completion
\* keyword and no failure keyword, todo-progress marks exactly that active
\* task completed; if afterwards no task remains pending, the summary reports
\* completion_percentage = 100.
C21_ToolResultCompletes ==
    [][(TodoProgress /\ CompletionReported(state))
       => LET before == state.todo_list
              after == state'.todo_list
              a == IndexOf(before.tasks, before.active_task_id)
          IN  /\ Len(after.tasks) = Len(before.tasks)
              /\ after.tasks[a].status = "completed"
              /\ \A i \in 1..Len(before.tasks) :
                    i # a => after.tasks[i].status = before.tasks[i].status
              /\ get_todo_list_summary(after).pending = 0
                    => get_todo_list_summary(after).completion_percentage = 10000]_vars

\* the todo-progress node is about to analyse a tool result against an active
\* task of the list
ActiveTaskAnalysed(st) ==
    /\ cfg.enable_todo_planner
    /\ HasTasks(st)
    /\ st.todo_list.active_task_id # None
    /\ HasTask(st.todo_list, st.todo_list.active_task_id)
    /\ get_last_tool_execution(st).found

\* C32: in the heuristic evaluation of a tool result against the active
\* task (the one used when the progress model fails), a failure keyword wins
\* over completion keywords: with a failure keyword the outcome is a replan
\* with no completed task, and after todo-progress the active task id and
\* that task's status are as before; the task is completed exactly when a
\* completion keyword is present and no failure keyword is; with neither
\* nothing changes.
C32_FailureWins ==
    [][(TodoProgress /\ ActiveTaskAnalysed(state))
       => \A env \in {e \in ProgressEnvs(state.todo_list) : e.llm # "ok"} :
             ret' = TodoProgressMiddleware(state, cfg, env, clock)
                => LET before == state.todo_list
                       after == state'.todo_list
                       a == IndexOf(before.tasks, before.active_task_id)
                       kw == KeywordsIn(get_last_tool_execution(state).result)
                   IN  /\ "error" \in kw
                             => /\ "_needs_todo_replan" \in DOMAIN ret'.patch
                                /\ ret'.patch._needs_todo_replan
                                /\ after = before
                       /\ ("completed" \in kw /\ "error" \notin kw)
                             => /\ after.tasks[a].status = "completed"
                                /\ "_needs_todo_replan" \notin DOMAIN ret'.patch
                       /\ (after.tasks[a].status = "completed"
                              /\ before.tasks[a].status # "completed")
                             => ("completed" \in kw /\ "error" \notin kw)
                       /\ kw = {}
                             => /\ after = before
                                /\ "_needs_todo_replan" \notin DOMAIN ret'.patch]_vars

\* todo-progress has handled the tool result "completed with error" with a
\* failing progress model: a replan is asked for, the task is still active
\* and still pending
C32_Witness ==
    /\ ret.node = "todo_progress"
    /\ pc \in {"todo_check", "end_flow"}
    /\ "_needs_todo_replan" \in DOMAIN ret.patch
    /\ state.todo_list.active_task_id # None
    /\ get_task(state.todo_list, state.todo_list.active_task_id).status = "pending"
    /\ get_last_tool_execution(state).result = "completed with error"

\* todo-progress has just returned a patch that asks for a replan
ReplanRequested(r) ==
    /\ r.node = "todo_progress"
    /\ r.kind = "patch"
    /\ "_needs_todo_replan" \in DOMAIN r.patch
    /\ r.patch._needs_todo_replan

\* C34: whenever todo-progress sets the replan flag the turn next passes
\* through todo-check, which routes to todo-plan and leaves the flag cleared,
\* and the flag is false when a model cycle begins.
C34_ReplanOnce ==
    /\ [][(TodoProgress /\ ReplanRequested(ret')) => pc' = "todo_check"]_vars
    /\ [][(TodoCheck /\ ReplanRequested(ret))
            => (pc' = "todo_planner" /\ ~Get(state', "_needs_todo_replan", FALSE))]_vars
    /\ [](pc = "model" => ~Get(state, "_needs_todo_replan", FALSE))

\* the todo list has task a active although a is completed and other tasks wait,
\* or has no active task although some task is not completed
StaleActiveTask(tl, a) ==
    \/ /\ tl.active_task_id = a
       /\ get_todo_list_summary(tl).pending > 0
    \/ /\ tl.active_task_id = None
       /\ \E i \in 1..Len(tl.tasks) : tl.tasks[i].status # "completed"

\* C37: after the heuristic evaluation has completed the active task, a
\* model cycle that follows does not begin with that task still active while
\* tasks are pending, nor with no active task while some task is not
\* completed.
C37_NextTaskAfterCompletion ==
    [][(TodoProgress /\ ActiveTaskAnalysed(state))
       => \A env \in {e \in ProgressEnvs(state.todo_list) : e.llm # "ok"} :
             (/\ ret' = TodoProgressMiddleware(state, cfg, env, clock)
              /\ get_task(state.todo_list, state.todo_list.active_task_id).status
                     # "completed"
              /\ get_task(state'.todo_list, state.todo_list.active_task_id).status
                     = "completed"
              /\ pc' = "end_flow"
              /\ should_end_after_todo(state') = "continue")
                => ~StaleActiveTask(state'.todo_list, state.todo_list.active_task_id)]_vars

\* C38: the start node sets model_calls and tool_calls to 0; every execution
\* of the model node that returns to the graph raises model_calls by exactly
\* 1; no other node changes model_calls.
C38_ModelCallsCountsCycles ==
    /\ [][Start => (state'.model_calls = 0 /\ state'.tool_calls = 0)]_vars
    /\ [][(Model /\ pc' # "raised")
            => state'.model_calls = Get(state, "model_calls", 0) + 1]_vars
    /\ [][(Next /\ ~Start /\ ~Model)
            => Get(state', "model_calls", 0) = Get(state, "model_calls", 0)]_vars

\* C40: whenever todo-plan runs on a state whose todo list already has a
\* task, its patch has no todo list and the todo list after the node is the
\* list before it: no task added, removed or modified, the active task id as it was.
C40_PlannerKeepsTasks ==
    [][(TodoPlanner /\ HasTasks(state))
          => ("todo_list" \notin DOMAIN ret'.patch /\ state'.todo_list = state.todo_list)]_vars

\* todo-plan has run on a request that asks for several steps while the
\* state already had a list with a task, and has returned nothing
C40_Witness ==
    /\ ret.node = "todo_planner"
    /\ "todo_list" \notin DOMAIN ret.patch
    /\ HasTasks(state)
    /\ LastUserMessage(state.messages) = ComplexRequest
    /\ cfg.todo_complexity_approach = "llm"

\* C33: after every execution of the tools node the next node is
\* todo-progress when the todo feedback loop is enabled and completion-check
\* (end_flow) when it is disabled; the tools node never routes directly back
\* to the model or to end.
C33_RouteAfterTools ==
    [][Tools => pc' = (IF cfg.enable_todo_planner THEN "todo_progress" ELSE "end_flow")]_vars

\* a tool batch has run with the feedback loop enabled
C33_Witness ==
    /\ ret.node = "tools"
    /\ cfg.enable_todo_planner
    /\ pc = "todo_progress"
    /\ state.tool_calls = 1

\* a tool batch has run with the feedback loop disabled
C33_WitnessDisabled ==
    /\ ret.node = "tools"
    /\ ~cfg.enable_todo_planner
    /\ pc = "end_flow"
    /\ state.tool_calls = 1

\* C22: after the model node the turn routes to tools only when the emitted
\* message carries tool-call requests and the model-call ceiling has not been
\* reached; otherwise it routes to completion-check (end_flow) and no tool is
\* executed. The ceiling is compared with the count before the cycle, the
\* weaker of the two readings.
C22_RouteAfterModel ==
    [][(Model /\ ret'.kind # "raise")
       => /\ pc' = "tools"
                => /\ state'.messages[Len(state'.messages)].tool_calls # <<>>
                   /\ Get(state, "model_calls", 0) < cfg.max_model_calls
          /\ pc' # "tools"
                => /\ pc' = "end_flow"
                   /\ Get(state', "tool_calls", 0) = Get(state, "tool_calls", 0)]_vars

\* C23: completion-check is terminal: once completion-check (end_flow,
\* followed by pii_detect when enabled) is reached, the next node is end and
\* the model node is not entered again in that turn, whatever the todo list
\* contains.
C23_CompletionCheckTerminal ==
    [][/\ EndFlow => pc' = (IF cfg.enable_pii_detection THEN "pii_detect" ELSE "end")
       /\ PiiDetect => pc' = "end"]_vars

\* C24: every tool-result message is surfaced to the model: each execution
\* of the tools node is followed, before the turn ends, by a model invocation
\* whose input includes that batch's tool-result messages, both when the todo
\* feedback loop is disabled and when it is enabled with no task in the list.
\* A model invocation that made an attempt adds an assistant message, so at
\* the end of such a turn every tool-result message has an assistant message
\* after it.
C24_ToolResultsSurfaced ==
    (/\ pc = "END"
     /\ cfg.max_retries > 0
     /\ ~cfg.enable_todo_planner \/ ~HasTasks(state))
        => \A i \in 1..Len(state.messages) :
              state.messages[i].type = "tool"
                 => \E j \in (i + 1)..Len(state.messages) : state.messages[j].type = "ai"

\* C26: a hook that a middleware installed as a node defines is executed in
\* its phase; for the memory loader, whose hook is before_agent, the node run
\* at turn start returns the patch of that hook, so that the loaded memory
\* and preferences are in the state afterwards.
C26_HooksRun ==
    [][Memory
       => /\ DOMAIN ret'.patch = DOMAIN MemoryLoaderMiddleware_before_agent(clock).patch
          /\ "long_term_memory" \in DOMAIN state'
          /\ "user_preferences" \in DOMAIN state']_vars

\* every field in which the received dictionary differs after the call is in
\* the returned patch with its new value
CarriedByPatch(before, after, returned) ==
    \A k \in DOMAIN after :
        (k \notin DOMAIN before \/ after[k] # before[k])
            => (k \in DOMAIN returned.patch /\ returned.patch[k] = after[k])

\* C27: a hook treats the state it receives as read-only: every change a
\* todo node (todo-init, todo-plan, todo-progress, todo-check) makes to the
\* todo list or to a flag is carried by the patch it returns.
C27_ChangesInPatch ==
    [][/\ Todo => CarriedByPatch(state, TodoMiddleware_received(state, cfg, clock), ret')
       /\ TodoPlanner =>
             \A env \in PlannerEnvs :
                 ret' = BaseMiddlewareCall(
                            TodoPlannerMiddleware_before_model(state, cfg, env, uuids, clock))
                    => CarriedByPatch(state,
                           TodoPlannerMiddleware_received(state, cfg, env, uuids, clock), ret')
       /\ TodoProgress =>
             \A env \in ProgressEnvs(Get(state, "todo_list", create_empty_todo_list)) :
                 ret' = TodoProgressMiddleware(state, cfg, env, clock)
                    => CarriedByPatch(state,
                           TodoProgressMiddleware_received(state, cfg, env, clock), ret')
       /\ TodoCheck =>
             CarriedByPatch(state, TodoCheckerMiddleware_received(state, cfg), ret')]_vars

----------------------------------------------------------------------------
(* A turn in which the body of a middleware node may raise *)

\* the nodes whose class keeps BaseMiddleware.__call__
WrappedNodes == {"memory", "summarize", "todo", "todo_planner", "pii_detect"}

\* the nodes whose class defines its own __call__
OverridingNodes == {"start", "todo_progress", "todo_check", "end_flow", "end"}

NodeFault ==
    /\ pc \in WrappedNodes \cup OverridingNodes
    /\ Advance(pc, IF pc \in WrappedNodes THEN BaseMiddlewareCall(Raised(pc)) ELSE Raised(pc),
               "fault")
    /\ UNCHANGED <<cfg, clock, ops>>

NextFault == Next \/ NodeFault

SpecFault == Init /\ [][NextFault]_vars

\* C7: an exception raised inside any middleware node, the nodes with their
\* own call entry point (start, todo-progress, todo-check, end) included, is
\* caught and converted into a patch, and the graph proceeds to the next node.
C7_FaultIsCaught ==
    last.op = "fault" => (ret.kind = "patch" /\ pc # "raised")

----------------------------------------------------------------------------
(* TaskComplexityDetector.analyze called on a request *)

DetectorRequests ==
    {SimpleRequest, ComplexRequest, ProgressReport, LongRequest, LongComplexRequest}

Approaches == {"llm", "heuristic", "auto"}

\* an answer of the planning model that lists MaxSuggested tasks
LongBreakdown ==
    [needs_todo_list |-> TRUE,
     suggested_tasks |->
        [i \in 1..MaxSuggested |->
            TaskBreakdownItem(<<"Step one", "Step two", "Step three", "Step four",
                                "Step five", "Step six", "Step seven">>[i], "medium")],
     active_task_id |-> None]

\* what the model-assisted analysis may answer to the detector
DetectorEnvs == PlannerEnvs \cup {[llm |-> "ok", result |-> LongBreakdown]}

InitDetector ==
    /\ pc = "detector"
    /\ cfg \in {[todo_complexity_approach |-> a] : a \in Approaches}
    /\ state \in {[user_request |-> r, existing_todo_count |-> n] :
                     r \in DetectorRequests, n \in 0..MaxTasks}
    /\ ret = NoRet
    /\ clock = 1
    /\ uuids = 0
    /\ ops = 0
    /\ last = NoCall

Analyze ==
    /\ pc = "detector"
    /\ \E env \in DetectorEnvs :
          last' = [op |-> "analyze",
                   env |-> env,
                   llm_called |-> llm_analysis_called(cfg.todo_complexity_approach,
                                                      state.existing_todo_count),
                   ret |-> analyze_complexity(cfg.todo_complexity_approach,
                                              state.user_request,
                                              state.existing_todo_count, env)]
    /\ pc' = "returned"
    /\ UNCHANGED <<cfg, state, ret, clock, uuids, ops>>

SpecDetector == InitDetector /\ [][Analyze]_vars

\* C16: analyze(request, existing_task_count) with existing_task_count > 0
\* returns needs_list = false with no suggested task for every request and
\* every strategy, without invoking the model.
C16_NeverDoublePlans ==
    (last.op = "analyze" /\ state.existing_todo_count > 0) =>
        /\ last.ret.needs_todo_list = FALSE
        /\ last.ret.suggested_tasks = <<>>
        /\ ~last.llm_called

\* a long request with two keywords met a list that has tasks, under the auto
\* strategy and with a model that would have asked for a list
C16_Witness ==
    /\ last.op = "analyze"
    /\ state.existing_todo_count > 0
    /\ state.user_request = LongComplexRequest
    /\ cfg.todo_complexity_approach = "auto"
    /\ last.env.llm = "ok" /\ last.env.result.needs_todo_list
    /\ ~last.ret.needs_todo_list

\* C17: under the heuristic strategy with no existing task, needs_list is
\* true exactly when the request has at least 30 words or matches at least 2
\* keywords; when true exactly one task is suggested, of high priority
\* exactly when keyword_matches >= 2 and medium otherwise; when false no task
\* is suggested.
C17_Heuristic ==
    (/\ last.op = "analyze"
     /\ cfg.todo_complexity_approach = "heuristic"
     /\ state.existing_todo_count = 0) =>
        LET r == last.ret
            words == WordCount(state.user_request)
            matches == KeywordMatches(state.user_request)
        IN  /\ r.needs_todo_list <=> (words >= 30 \/ matches >= 2)
            /\ r.needs_todo_list =>
                  /\ Len(r.suggested_tasks) = 1
                  /\ r.suggested_tasks[1].priority =
                         (IF matches >= 2 THEN "high" ELSE "medium")
            /\ ~r.needs_todo_list => r.suggested_tasks = <<>>

\* a request of 33 words and no keyword: one task of medium priority
C17_Witness ==
    /\ last.op = "analyze"
    /\ cfg.todo_complexity_approach = "heuristic"
    /\ state.existing_todo_count = 0
    /\ state.user_request = LongRequest
    /\ last.ret.needs_todo_list
    /\ last.ret.suggested_tasks[1].priority = "medium"

\* a request of 5 words and 3 keywords: one task of high priority
C17_WitnessKeywords ==
    /\ last.op = "analyze"
    /\ cfg.todo_complexity_approach = "heuristic"
    /\ state.existing_todo_count = 0
    /\ state.user_request = ComplexRequest
    /\ last.ret.needs_todo_list
    /\ last.ret.suggested_tasks[1].priority = "high"

\* C18: when the model-assisted analysis fails (the call raises or its output
\* cannot be parsed), analyze returns the heuristic strategy's result for the
\* same request under auto and needs_list = false with no task under
\* model-only; under heuristic-only the model is never invoked.
C18_AnalysisFailure ==
    (last.op = "analyze" /\ state.existing_todo_count = 0) =>
        /\ cfg.todo_complexity_approach = "heuristic" => ~last.llm_called
        /\ (last.env.llm \in {"raise", "unparsable"}
                /\ cfg.todo_complexity_approach = "auto")
              => last.ret = heuristic_analysis(state.user_request)
        /\ (last.env.llm \in {"raise", "unparsable"}
                /\ cfg.todo_complexity_approach = "llm")
              => (~last.ret.needs_todo_list /\ last.ret.suggested_tasks = <<>>)

\* the model's answer could not be parsed under auto, and the heuristic
\* asked for a list
C18_Witness ==
    /\ last.op = "analyze"
    /\ state.existing_todo_count = 0
    /\ cfg.todo_complexity_approach = "auto"
    /\ last.env.llm = "unparsable"
    /\ last.llm_called
    /\ last.ret.needs_todo_list

\* the model call raised under model-only
C18_WitnessModelOnly ==
    /\ last.op = "analyze"
    /\ state.existing_todo_count = 0
    /\ cfg.todo_complexity_approach = "llm"
    /\ last.env.llm = "raise"
    /\ state.user_request = LongComplexRequest
    /\ ~last.ret.needs_todo_list

\* the todo list todo-plan creates from the analysis of the last call, for a
\* state that holds the request and no todo list
PlannedFrom(env) ==
    LET st == [messages |-> WithIds(<<HumanMessage(state.user_request)>>)]
        c == [enable_todo_planner |-> TRUE,
              todo_complexity_approach |-> cfg.todo_complexity_approach]
        r == TodoPlannerMiddleware_before_model(st, c, env, 0, clock)
    IN  IF r.kind = "patch" THEN r.patch.todo_list ELSE create_empty_todo_list

\* C30: analyze returns at most 5 suggested tasks under every strategy,
\* also when the structured output of the planning model lists more than 5
\* tasks; consequently todo-plan never creates more than 5 tasks from one
\* analysis.
C30_AtMostFiveTasks ==
    last.op = "analyze" =>
        /\ Len(last.ret.suggested_tasks) <= 5
        /\ state.existing_todo_count = 0 => Len(PlannedFrom(last.env).tasks) <= 5

----------------------------------------------------------------------------
(* TodoProgressAnalyzer.analyze called on a todo list and a tool result *)

\* lists of no, one or two tasks in any status, with no active task, an
\* active task of the list, or an active task that has since been removed
AnalyzerLists ==
    LET one == create_task(create_empty_todo_list, "Build the project", "medium",
                           None, <<>>, 1, 1)
        two == create_task(one, "Build the project", "high", None, <<>>, 2, 2)
        moved == {update_task_status(update_task_status(l, 2, s2, NoResult, 3),
                                     1, s1, NoResult, 4) :
                     l \in {one, two}, s1 \in TaskStatus, s2 \in TaskStatus}
        active == {set_active_task(l, a) : l \in moved, a \in {None, 1, 2}}
    IN  {create_empty_todo_list} \cup active
            \cup {remove_task(l, l.active_task_id) : l \in {m \in active : m.active_task_id # None}}

AnalyzerResults == {"ok", "Task completed", "completed with error", "Error: boom"}

InitAnalyzer ==
    /\ pc = "analyzer"
    /\ cfg = NoCfg
    /\ state \in {[todo_list |-> tl, tool_result |-> r] :
                     tl \in AnalyzerLists, r \in AnalyzerResults}
    /\ ret = NoRet
    /\ clock = 5
    /\ uuids = 2
    /\ ops = 0
    /\ last = NoCall

AnalyzeProgress ==
    /\ pc = "analyzer"
    /\ \E env \in ProgressEnvs(state.todo_list) :
          last' = [op |-> "analyze_progress",
                   env |-> env,
                   llm_called |-> llm_analyze_called(state.todo_list),
                   ret |-> analyze_progress(state.todo_list, state.tool_result, env)]
    /\ pc' = "returned"
    /\ UNCHANGED <<cfg, state, ret, clock, uuids, ops>>

SpecAnalyzer == InitAnalyzer /\ [][AnalyzeProgress]_vars

\* C31: analyze applies its early decisions in this order, without
\* evaluating the tool result or invoking the model: with no task the result
\* is a no-op; else with no active task the result's next_task_id is the next
\* pending task (none when nothing is pending), with no completion and no
\* replan; else with an active task id that matches no task the result has
\* should_replan = true.
C31_EarlyDecisions ==
    last.op = "analyze_progress" =>
        LET tl == state.todo_list
        IN  /\ tl.tasks = <<>>
                  => /\ last.ret = TodoProgressResult(None, FALSE, None)
                     /\ ~last.llm_called
            /\ (tl.tasks # <<>> /\ tl.active_task_id = None)
                  => /\ last.ret = TodoProgressResult(None, FALSE, get_next_task(tl))
                     /\ get_pending_tasks(tl) = <<>> => last.ret.next_task_id = None
                     /\ ~last.llm_called
            /\ (tl.tasks # <<>> /\ tl.active_task_id # None
                    /\ ~HasTask(tl, tl.active_task_id))
                  => /\ last.ret.should_replan
                     /\ last.ret.completed_task_id = None
                     /\ ~last.llm_called

\* the active task has been removed from a list that still holds a task, the
\* progress model would have answered, and the result asks for a replan
C31_Witness ==
    /\ last.op = "analyze_progress"
    /\ state.todo_list.tasks # <<>>
    /\ state.todo_list.active_task_id # None
    /\ ~HasTask(state.todo_list, state.todo_list.active_task_id)
    /\ last.env.llm = "ok"
    /\ ~last.env.result.should_replan
    /\ last.ret.should_replan

\* no task is active and a task is pending: it is named as the next task
C31_WitnessNext ==
    /\ last.op = "analyze_progress"
    /\ state.todo_list.active_task_id = None
    /\ state.tool_result = "Task completed"
    /\ last.ret.next_task_id # None
    /\ last.ret.next_task_id = get_next_task(state.todo_list)

-----------------------------------------------------------------------------
(* TodoCheckerMiddleware called on a state and followed by its edge *)

\* the states the node is called on: no todo list, or a list of no, one or
\* two tasks in any status with no, a present or a removed active task
InitChecker ==
    /\ pc = "todo_check"
    /\ cfg \in {c \in GraphConfigs : c.enable_todo_planner}
    /\ state \in {[messages |-> WithIds(<<HumanMessage(ComplexRequest)>>)] @@ t :
                     t \in {<<>>} \cup {[todo_list |-> tl] : tl \in AnalyzerLists}}
    /\ ret = NoRet
    /\ clock = 5
    /\ uuids = 2
    /\ ops = 0
    /\ last = NoCall

SpecChecker == InitChecker /\ [][TodoCheck]_vars

\* some task of the state's todo list is not completed
SomeTaskOpen(st) ==
    /\ HasTasks(st)
    /\ \E i \in 1..Len(st.todo_list.tasks) : st.todo_list.tasks[i].status # "completed"

\* C35: when the todo check that follows todo-progress finds no replan flag
\* set and a list with no tasks or only completed tasks, the turn goes on to
\* completion-check (end_flow) and does not route back to the model: the step
\* out of todo_progress then leads to end_flow, and the todo_check node,
\* whose only exit with no flag set is the model, is never entered with such
\* a list.
C35_CheckerEnds ==
    /\ [][(/\ TodoProgress
           /\ ~Get(state', "_needs_todo_replan", FALSE)
           /\ ~SomeTaskOpen(state'))
          => pc' = "end_flow"]_vars
    /\ []((pc = "todo_check" /\ ~Get(state, "_needs_todo_replan", FALSE))
             => SomeTaskOpen(state))

\* todo_progress has completed the last open task of the list and the turn
\* is at completion-check
C35_Witness ==
    /\ ret.node = "todo_progress"
    /\ pc = "end_flow"
    /\ HasTasks(state)
    /\ ~SomeTaskOpen(state)

\* todo_progress has run on a state with no task and the turn is at
\* completion-check
C35_WitnessNoTasks ==
    /\ ret.node = "todo_progress"
    /\ pc = "end_flow"
    /\ ~HasTasks(state)

\* C36: whenever todo-check routes back to the model with no replan flag set
\* while some task is not completed, the todo list then has an active task id
\* that is not null and is the id of a task of the list.
C36_ActiveAfterCheck ==
    [][(TodoCheck /\ ~Get(state, "_needs_todo_replan", FALSE) /\ SomeTaskOpen(state)
            /\ pc' = "model")
          => /\ state'.todo_list.active_task_id # None
             /\ HasTask(state'.todo_list, state'.todo_list.active_task_id)]_vars

-----------------------------------------------------------------------------
(* backend-py-legacy agent/tools/shell.py: run_interactive_command called by
   concurrent callers on one session id. The tool is a plain function that
   the tool executor runs on worker threads; the interpreter may switch
   threads between any two of its statements. *)


\* the target directory of a cd command, no directory for any other command
CdTarget(command) ==
    IF command = "cd /a" THEN "/a" ELSE IF command = "cd /b" THEN "/b" ELSE ""

\* Every caller runs one of the commands cd /a, cd /b and pwd on the session
\* id "dev". _sessions maps the id to a session object (0: no entry), objects
\* are the session objects created so far, session[p] is the object caller p
\* works on, dirs are the directories that exist (os.path.isdir), closer[k]
\* is the position of the k-th caller of close_session, ops counts the
\* deletions of the entry
InitShell ==
    /\ pc = [p \in 1..MaxProcs |-> "check"]
    /\ cfg = NoCfg
    /\ state \in {[_sessions |-> None, objects |-> <<>>,
                    session |-> [p \in 1..MaxProcs |-> None], command |-> c, dirs |-> d,
                    closer |-> [k \in 1..MaxCloses |-> "test"]] :
                      c \in [1..MaxProcs -> {"cd /a", "cd /b", "pwd"}], d \in SUBSET {"/a", "/b"}}
    /\ ret = NoRet
    /\ clock = 0
    /\ uuids = 0
    /\ ops = 0
    /\ last = [op |-> "shell", completed |-> 0, cd |-> "/"]

\* get_or_create_session: `if session_id not in _sessions`
SessionCheck(p) ==
    /\ pc[p] = "check"
    /\ pc' = [pc EXCEPT ![p] = IF state._sessions = None THEN "create" ELSE "lookup"]
    /\ UNCHANGED <<cfg, state, ret, clock, uuids, ops, last>>

\* get_or_create_session: `_sessions[session_id] = ShellSession(session_id,
\* cwd = os.getcwd(), env = dict(os.environ))`
SessionCreate(p) ==
    /\ pc[p] = "create"
    /\ state' = [state EXCEPT !.objects = Append(@, [session_id |-> "dev", cwd |-> "/",
                                                     history |-> <<>>]),
                               !._sessions = Len(state.objects) + 1]
    /\ pc' = [pc EXCEPT ![p] = "lookup"]
    /\ UNCHANGED <<cfg, ret, clock, uuids, ops, last>>

\* get_or_create_session: `session = _sessions[session_id]`, returned; the
\* subscription raises KeyError when the entry has been deleted meanwhile
SessionLookup(p) ==
    /\ pc[p] = "lookup"
    /\ IF state._sessions = None
       THEN state' = state /\ pc' = [pc EXCEPT ![p] = "raised"]
       ELSE /\ state' = [state EXCEPT !.session[p] = state._sessions]
            /\ pc' = [pc EXCEPT ![p] = "run"]
    /\ UNCHANGED <<cfg, ret, clock, uuids, ops, last>>

\* run_interactive_command: the built-in cd assigns session.cwd when the
\* target is a directory and builds a failure result otherwise, pwd reads it
RunCommand(p) ==
    /\ pc[p] = "run"
    /\ state' = IF CdTarget(state.command[p]) \in state.dirs
                THEN [state EXCEPT !.objects[state.session[p]].cwd =
                                        CdTarget(state.command[p])]
                ELSE state
    /\ pc' = [pc EXCEPT ![p] = "append"]
    /\ UNCHANGED <<cfg, ret, clock, uuids, ops, last>>

\* run_interactive_command: `session.history.append(result)` and the return
AppendHistory(p) ==
    /\ pc[p] = "append"
    /\ state' = [state EXCEPT !.objects[state.session[p]].history =
                                   Append(@, state.command[p])]
    /\ pc' = [pc EXCEPT ![p] = "done"]
    /\ last' = [op |-> "shell",
                completed |-> last.completed + 1,
                cd |-> IF CdTarget(state.command[p]) \in state.dirs
                       THEN CdTarget(state.command[p])
                       ELSE last.cd]
    /\ UNCHANGED <<cfg, ret, clock, uuids, ops>>

\* close_session: `if session_id in _sessions`; with no entry the call
\* returns "not found"
CloseTest(k) ==
    /\ state.closer[k] = "test"
    /\ state' = [state EXCEPT !.closer[k] =
                                   IF state._sessions # None THEN "delete" ELSE "done"]
    /\ UNCHANGED <<pc, cfg, ret, clock, uuids, ops, last>>

\* close_session: `del _sessions[session_id]`, which raises KeyError when
\* the entry has been deleted since the test
CloseDelete(k) ==
    /\ state.closer[k] = "delete"
    /\ IF state._sessions = None
       THEN state' = [state EXCEPT !.closer[k] = "raised"] /\ ops' = ops
       ELSE /\ state' = [state EXCEPT !._sessions = None, !.closer[k] = "done"]
            /\ ops' = ops + 1
    /\ UNCHANGED <<pc, cfg, ret, clock, uuids, last>>

NextShell ==
    \/ \E p \in 1..MaxProcs :
          \/ SessionCheck(p) \/ SessionCreate(p) \/ SessionLookup(p)
          \/ RunCommand(p) \/ AppendHistory(p)
    \/ \E k \in 1..MaxCloses : CloseTest(k) \/ CloseDelete(k)

SpecShell == InitShell /\ [][NextShell]_vars

\* C39: for every interleaving of commands on one session id, as long as
\* the session has not been closed, the callers all work on the one session
\* object registered for the id, and once no command is under way the
\* session's command_count is the number of commands completed on the id and
\* its working directory is the one the last completed cd has set.
C39_SessionUpdatesKept ==
    (last.op = "shell" /\ ops = 0) =>
        /\ \A p \in 1..MaxProcs : state.session[p] \in {None, state._sessions}
        /\ (\A p \in 1..MaxProcs : pc[p] \in {"check", "done"}) /\ last.completed > 0
              => /\ Len(state.objects[state._sessions].history) = last.completed
                 /\ state.objects[state._sessions].cwd = last.cd

====
